---- MODULE Spec2Model ----
(***************************************************************************)
(* NICO: the KubernetesCluster reconciliation engine.                      *)
(*                                                                         *)
(* Machine names are modelled by the naturals 1..MaxMachines; the order of *)
(* the naturals stands for the lexicographic order of the names.  The      *)
(* child NixosConfiguration of machine m ("<cluster>-<m>") is identified   *)
(* by m.  None stands for Python's None and for an absent dictionary key   *)
(* read through dict.get().                                                *)
(***************************************************************************)
EXTENDS Integers, Sequences, FiniteSets, TLC

\* ------------------------------------------------------------------ bounds
MaxMachines == 3
MaxSel == 2        \* longest explicit list / persisted selection drawn
MaxCount == 2

Machines == 1..MaxMachines
None == "None"

\* ------------------------------------------------------- sequence helpers
Range(s) == { s[i] : i \in DOMAIN s }

Take(s, n) == IF n >= Len(s) THEN s ELSE SubSeq(s, 1, n)

\* Sequences without repetition, of length at most n, over the set S.
DistinctSeqs(S, n) ==
  UNION { { s \in [1..k -> S] : \A i, j \in 1..k : i # j => s[i] # s[j] } : k \in 0..n }

\* list.sort() of names (kubernetescluster_handlers.py:112).
RECURSIVE SortedSeq(_)
SortedSeq(S) ==
  IF S = {} THEN << >>
  ELSE LET lo == CHOOSE x \in S : \A y \in S : x <= y
       IN  << lo >> \o SortedSeq(S \ {lo})

\* --------------------------------------------------------- machine pool
\* A Machine object: exists (FALSE: no such Machine), labels, and
\* status.hasConfiguration as "True", "False" or None (absent).

\* An absent hasConfiguration reads as False: the Machine counts as free.
HasConfigurationOrFalse(mach) == mach.hasConfiguration = "True"

\* dict.get("hasConfiguration", True) of a Machine's status
\* (kubernetescluster_handlers.py:108): absent reads as True.
HasConfigurationOrTrue(mach) ==
  IF mach.hasConfiguration = None THEN TRUE ELSE mach.hasConfiguration = "True"

\* The label test of lines 100-105: every matchLabels pair is on the machine.
LabelsMatch(mach, matchLabels) == matchLabels \subseteq mach.labels

\* ------------------------------------------------------------- selection
\* The persisted selection is looked up for the control plane only.
StatusKey_control_plane_only(role) ==
  IF role = "controlPlane" THEN "selectedControlPlaneMachines" ELSE None

\* Lines 68-73: the status field holding the persisted selection of a role.
StatusKey(role) ==
  IF role = "controlPlane" THEN "selectedControlPlaneMachines"
  ELSE IF role = "dataPlane" THEN "selectedDataPlaneMachines"
  ELSE None

\* The names are kept in the order of the listing: no sort.
FreshSelection_unsorted(roleSpec, listing) ==
  LET keep(item) == /\ LabelsMatch(item, roleSpec.matchLabels)
                    /\ ~HasConfigurationOrTrue(item)
      kept == SelectSeq(listing, keep)
  IN  Take([ i \in DOMAIN kept |-> kept[i].name ], roleSpec.count)

\* Lines 96-115: filter the listing, sort by name, keep the first count.
FreshSelection(roleSpec, listing) ==
  LET keep(i) == /\ LabelsMatch(listing[i], roleSpec.matchLabels)
                 /\ ~HasConfigurationOrTrue(listing[i])
      names == { listing[i].name : i \in { j \in DOMAIN listing : keep(j) } }
  IN  Take(SortedSeq(names), roleSpec.count)

\* The persisted selection is tried before the explicit list.
select_status_before_explicit(roleSpec, role, current_status, listing) ==
  LET key == StatusKey(role)
  IN  IF key # None /\ current_status[key] # << >>
      THEN [selected |-> current_status[key], listed |-> FALSE]
      ELSE IF roleSpec.machines # << >>
      THEN [selected |-> roleSpec.machines, listed |-> FALSE]
      ELSE IF roleSpec.count = 0
      THEN [selected |-> << >>, listed |-> FALSE]
      ELSE [selected |-> FreshSelection(roleSpec, listing), listed |-> TRUE]

\* The persisted selection is not consulted: every call without an explicit
\* list selects afresh.
select_ignoring_status(roleSpec, role, current_status, listing) ==
  IF roleSpec.machines # << >>
  THEN [selected |-> roleSpec.machines, listed |-> FALSE]
  ELSE IF roleSpec.count = 0
  THEN [selected |-> << >>, listed |-> FALSE]
  ELSE [selected |-> FreshSelection(roleSpec, listing), listed |-> TRUE]

\* select_machines_for_cluster: the selected names, and whether
\* list_machines was called.  listing is what list_machines returns.
select_machines_for_cluster(roleSpec, role, current_status, listing) ==
  LET key == StatusKey(role)
  IN  IF roleSpec.machines # << >>
      THEN [selected |-> roleSpec.machines, listed |-> FALSE]
      ELSE IF key # None /\ current_status[key] # << >>
      THEN [selected |-> current_status[key], listed |-> FALSE]
      ELSE IF roleSpec.count = 0
      THEN [selected |-> << >>, listed |-> FALSE]
      ELSE [selected |-> FreshSelection(roleSpec, listing), listed |-> TRUE]

\* ------------------------------------------------------ child: drift
\* The four fields of a child's spec that follow the parent.
DriftFields == {"gitRepo", "ref", "configurationSubdir", "credentialsRef"}

\* dict.get(key, default): the default stands in only for an absent key.
GetOr(v, default) == IF v = None THEN default ELSE v

\* Python truth of a field value: None, "" and an empty mapping are false.
Truthy(v) == v \notin {None, "", "{}"}

\* ref is compared only when the parent sets it: a removal goes unnoticed.
spec_updates_no_removal(parent, existing) ==
  LET cluster_subdir == GetOr(parent.configurationSubdir, "")
      keys == { k \in DriftFields :
                  CASE k = "gitRepo" -> existing.gitRepo # parent.gitRepo
                    [] k = "ref" -> Truthy(parent.ref) /\ parent.ref # existing.ref
                    [] k = "configurationSubdir" ->
                         cluster_subdir # GetOr(existing.configurationSubdir, "")
                    [] k = "credentialsRef" ->
                         parent.credentialsRef # existing.credentialsRef }
  IN  [ k \in keys |-> IF k = "configurationSubdir" THEN cluster_subdir ELSE parent[k] ]

\* spec_updates of lines 356-386 (and 416-446): the fields to patch and the
\* values sent; None is the JSON null that removes the field.
spec_updates(parent, existing) ==
  LET cluster_subdir == GetOr(parent.configurationSubdir, "")
      keys == { k \in DriftFields :
                  CASE k = "gitRepo" -> existing.gitRepo # parent.gitRepo
                    [] k = "ref" -> parent.ref # existing.ref
                    [] k = "configurationSubdir" ->
                         cluster_subdir # GetOr(existing.configurationSubdir, "")
                    [] k = "credentialsRef" ->
                         parent.credentialsRef # existing.credentialsRef }
  IN  [ k \in keys |-> IF k = "configurationSubdir" THEN cluster_subdir ELSE parent[k] ]

\* JSON merge patch of {"spec": updates} on a child (clients.py:254-264):
\* a null removes the field, any other value replaces it.
patch_nixos_configuration_spec(child, updates) ==
  [ k \in DOMAIN child |-> IF k \in DOMAIN updates THEN updates[k] ELSE child[k] ]

\* ------------------------------------------------------------------ state
VARIABLES
  spec,               \* KubernetesCluster spec
  uid,                \* metadata.uid (None when missing)
  deletionTimestamp,  \* metadata.deletionTimestamp is set
  machines,           \* Machine objects by name (None: no such Machine)
  children,           \* NixosConfiguration children by machine (None: absent)
  secrets,            \* which of the two Secrets exist
  status,             \* KubernetesCluster status subresource
  trace,              \* API calls issued by the last handler run
  outcome,            \* how the last handler run ended
  envSteps,           \* changes made so far by users, agents and the platform
  cpEverReady,        \* history: some control-plane node has been ready
  call,               \* arguments of the function under study
  result,             \* its return value
  loop                \* the event loop: the task it runs, each task's position

vars == << spec, uid, deletionTimestamp, machines, children, secrets, status,
           trace, outcome, envSteps, cpEverReady, call, result, loop >>

\* The two coroutines the framework runs for one cluster: the unified event
\* handler (main.py:24-30) and the 30 s timer (handlers 691-692).
Handlers == {"reconcile", "monitor"}

\* A task that is not scheduled: no run, no position.
IdleTask == [ state |-> "idle", pc |-> 0, run |-> << >> ]

\* The event loop with nothing to run.
NoLoop == [ running |-> None, tasks |-> [ h \in Handlers |-> IdleTask ] ]

\* body.get("status", {}) before any status write.
EmptyStatus ==
  [ phase |-> None, controlPlaneReady |-> None, dataPlaneReady |-> None,
    kubeconfigSecret |-> None, appliedMachines |-> << >>,
    selectedControlPlaneMachines |-> << >>, selectedDataPlaneMachines |-> << >>,
    conditions |-> << >> ]

\* The items list_machines returns for a pool, in ascending or descending
\* name order (the API promises no order).
Listing(pool, descending) ==
  LET present == { m \in Machines : pool[m].exists }
      asc == SortedSeq(present)
      n == Len(asc)
      item(m) == [ name |-> m, labels |-> pool[m].labels,
                   hasConfiguration |-> pool[m].hasConfiguration ]
  IN  [ i \in 1..n |-> item(asc[IF descending THEN n + 1 - i ELSE i]) ]

\* ------------------------------------------------------- API gateway
\* An injected failure of one API call of a handler run: op names the call,
\* m the Machine (or child) it is about, 0 when it is about none.
NoFault == [ op |-> "none", m |-> 0 ]

Fails(fault, op, m) == fault.op = op /\ fault.m = m

\* One entry of the trace of API calls a handler run issues.
Call(op, m, body) == [ op |-> op, m |-> m, body |-> body ]

\* list_machines (clients.py:103-115): the items, or [] when the call fails.
list_machines(pool, descending, fault) ==
  IF Fails(fault, "list_machines", 0) THEN << >> ELSE Listing(pool, descending)

\* get_machine (clients.py:92-100) succeeds when the Machine exists and the
\* call does not fail.
get_machine_ok(pool, m, fault) == pool[m].exists /\ ~Fails(fault, "get_machine", m)

\* The status is replaced by the patch: fields the patch does not name are
\* lost.
update_cluster_status_replacing(old, patch) ==
  [ k \in DOMAIN old |-> IF k \in DOMAIN patch THEN patch[k] ELSE EmptyStatus[k] ]

\* update_cluster_status (clients.py:272-291) sends a merge patch: top-level
\* fields of the patch replace the old ones, lists included; the
\* appliedMachines mapping is merged key by key.
update_cluster_status(old, patch) ==
  [ k \in DOMAIN old |->
      IF k \notin DOMAIN patch THEN old[k]
      ELSE IF k = "appliedMachines"
      THEN [ m \in DOMAIN old[k] \cup DOMAIN patch[k] |->
               IF m \in DOMAIN patch[k] THEN patch[k][m] ELSE old[k][m] ]
      ELSE patch[k] ]

\* ----------------------------------------------------- child: creation
NoChild ==
  [ exists |-> FALSE, role |-> None, ownerReferences |-> << >>, gitRepo |-> None,
    ref |-> None, configurationSubdir |-> None, credentialsRef |-> None,
    flake |-> 0, machineRef |-> 0, onRemoveFlake |-> None,
    appliedCommit |-> None ]

\* The name of the one cluster modelled.
ClusterName == "cluster"

\* The ownerReferences of create_nixos_configuration_with_owner
\* (clients.py:187-196).
OwnerReferences(owner_name, owner_uid) ==
  << [ kind |-> "KubernetesCluster", name |-> owner_name, uid |-> owner_uid,
       controller |-> TRUE, blockOwnerDeletion |-> TRUE ] >>

\* The child is created through create_nixos_configuration
\* (clients.py:149), which sets no owner reference and no labels.
create_nixos_configuration_without_owner(cluster_uid, m, role, cluster_spec) ==
  [ exists |-> TRUE, role |-> None, ownerReferences |-> << >>,
    gitRepo |-> cluster_spec.gitRepo,
    ref |-> IF Truthy(cluster_spec.ref) THEN cluster_spec.ref ELSE None,
    configurationSubdir |-> GetOr(cluster_spec.configurationSubdir, ""),
    credentialsRef |-> IF Truthy(cluster_spec.credentialsRef)
                       THEN cluster_spec.credentialsRef ELSE None,
    flake |-> m, machineRef |-> m, onRemoveFlake |-> "#minimal",
    appliedCommit |-> None ]

\* create_nixos_configuration_for_machine with
\* create_nixos_configuration_with_owner: the child created for machine m.
create_nixos_configuration_for_machine(cluster_uid, m, role, cluster_spec) ==
  [ exists |-> TRUE, role |-> role,
    ownerReferences |-> OwnerReferences(ClusterName, cluster_uid),
    gitRepo |-> cluster_spec.gitRepo,
    ref |-> IF Truthy(cluster_spec.ref) THEN cluster_spec.ref ELSE None,
    configurationSubdir |-> GetOr(cluster_spec.configurationSubdir, ""),
    credentialsRef |-> IF Truthy(cluster_spec.credentialsRef)
                       THEN cluster_spec.credentialsRef ELSE None,
    flake |-> m, machineRef |-> m, onRemoveFlake |-> "#minimal",
    appliedCommit |-> None ]


\* An existing child is not looked at: every machine's child is created.
RECURSIVE ensure_children_recreating(_, _, _, _, _, _)
ensure_children_recreating(ms, role, cluster_uid, cluster_spec, fault, acc) ==
  IF ms = << >> \/ acc.err # None THEN acc
  ELSE
    LET m == Head(ms)
        calls == << Call("get_child", m, << >>), Call("create_child", m, << >>) >>
        next ==
          IF Fails(fault, "get_child", m) \/ Fails(fault, "create_child", m)
          THEN [ acc EXCEPT !.trace = @ \o calls, !.err = "unknown" ]
          ELSE [ acc EXCEPT
                   !.trace = @ \o calls,
                   !.children[m] = create_nixos_configuration_for_machine(
                                     cluster_uid, m, role, cluster_spec),
                   !.applied = @ @@ (m :> m) ]
    IN  ensure_children_recreating(Tail(ms), role, cluster_uid, cluster_spec,
                                   fault, next)

\* A failed call of the ensure loop is logged and the loop goes on.
RECURSIVE ensure_children_ignoring_errors(_, _, _, _, _, _)
ensure_children_ignoring_errors(ms, role, cluster_uid, cluster_spec, fault, acc) ==
  IF ms = << >> THEN acc
  ELSE
    LET m == Head(ms)
        got == Call("get_child", m, << >>)
        failed == \E op \in {"get_child", "patch_child", "create_child"} :
                    Fails(fault, op, m)
        next ==
          IF failed \/ acc.children[m].exists
          THEN [ acc EXCEPT !.trace = @ \o << got >>,
                            !.applied = @ @@ (m :> m) ]
          ELSE [ acc EXCEPT
                   !.trace = @ \o << got, Call("create_child", m, << >>) >>,
                   !.children[m] = create_nixos_configuration_for_machine(
                                     cluster_uid, m, role, cluster_spec),
                   !.applied = @ @@ (m :> m) ]
    IN  ensure_children_ignoring_errors(Tail(ms), role, cluster_uid,
                                        cluster_spec, fault, next)

\* The children of the role whose machines are no longer in the list are
\* removed after the pass.
ensure_children_pruning(ms, role, cluster_uid, cluster_spec, fault, acc) ==
  LET done == ensure_children_ignoring_errors(ms, role, cluster_uid, cluster_spec,
                                              fault, acc)
  IN  [ done EXCEPT
          !.children = [ m \in Machines |->
                           IF m \notin Range(ms) /\ @[m].role = role
                           THEN NoChild ELSE @[m] ] ]

\* ------------------------------------------------------------ reconcile
\* One pass of the ensure loop (lines 348-405 for the control plane,
\* 408-465 for the workers) over the machines ms, threading
\* acc = [children, applied, trace, err].
RECURSIVE ensure_children(_, _, _, _, _, _)
ensure_children(ms, role, cluster_uid, cluster_spec, fault, acc) ==
  IF ms = << >> \/ acc.err # None THEN acc
  ELSE
    LET m == Head(ms)
        existing == acc.children[m]
        got == Call("get_child", m, << >>)
        updates == spec_updates(cluster_spec, existing)
        next ==
          IF Fails(fault, "get_child", m)
          THEN [ acc EXCEPT !.trace = @ \o << got >>, !.err = "unknown" ]
          ELSE IF existing.exists
          THEN IF updates = << >>
               THEN [ acc EXCEPT !.trace = @ \o << got >>,
                                 !.applied = @ @@ (m :> m) ]
               ELSE IF Fails(fault, "patch_child", m)
               THEN [ acc EXCEPT
                        !.trace = @ \o << got, Call("patch_child", m, updates) >>,
                        !.err = "unknown" ]
               ELSE [ acc EXCEPT
                        !.trace = @ \o << got, Call("patch_child", m, updates) >>,
                        !.children[m] = patch_nixos_configuration_spec(existing, updates),
                        !.applied = @ @@ (m :> m) ]
          ELSE IF Fails(fault, "create_child", m)
          THEN [ acc EXCEPT
                   !.trace = @ \o << got, Call("create_child", m, << >>) >>,
                   !.err = "unknown" ]
          ELSE [ acc EXCEPT
                   !.trace = @ \o << got, Call("create_child", m, << >>) >>,
                   !.children[m] = create_nixos_configuration_for_machine(
                                     cluster_uid, m, role, cluster_spec),
                   !.applied = @ @@ (m :> m) ]
    IN  ensure_children(Tail(ms), role, cluster_uid, cluster_spec, fault, next)

\* No Machine is fetched ahead of the ensure loops.
collect_no_machines_info(ms, pool, fault, acc) == acc

\* The get_machine calls of lines 337-342, in order, up to the first failure.
RECURSIVE collect_machines_info(_, _, _, _)
collect_machines_info(ms, pool, fault, acc) ==
  IF ms = << >> \/ acc.err # None THEN acc
  ELSE collect_machines_info(Tail(ms), pool, fault,
         [ acc EXCEPT !.trace = @ \o << Call("get_machine", Head(ms), << >>) >>,
                      !.err = IF get_machine_ok(pool, Head(ms), fault)
                              THEN None ELSE "unknown" ])

\* appliedMachines records the control-plane children only.
reconcile_status_control_plane_only(control_plane_nodes, worker_nodes, applied_configs) ==
  [ phase |-> "Provisioning",
    controlPlaneReady |-> << 0, Len(control_plane_nodes) >>,
    dataPlaneReady |-> << 0, Len(worker_nodes) >>,
    kubeconfigSecret |-> "kubeconfig",
    appliedMachines |-> [ m \in Range(control_plane_nodes) |-> applied_configs[m] ],
    selectedControlPlaneMachines |-> control_plane_nodes,
    selectedDataPlaneMachines |-> worker_nodes,
    conditions |-> << [ type |-> "Provisioning", status |-> "True",
                        reason |-> "ConfigurationsCreated" ] >> ]

\* The status the reconciler writes (lines 468-490).
reconcile_status(control_plane_nodes, worker_nodes, applied_configs) ==
  [ phase |-> "Provisioning",
    controlPlaneReady |-> << 0, Len(control_plane_nodes) >>,
    dataPlaneReady |-> << 0, Len(worker_nodes) >>,
    kubeconfigSecret |-> "kubeconfig",
    appliedMachines |-> applied_configs,
    selectedControlPlaneMachines |-> control_plane_nodes,
    selectedDataPlaneMachines |-> worker_nodes,
    conditions |-> << [ type |-> "Provisioning", status |-> "True",
                        reason |-> "ConfigurationsCreated" ] >> ]

\* The Secret is created without looking whether it exists.
create_join_token_secret_unconditionally(existing, fault) ==
  LET create == << Call("create_secret", 0, "join-token") >>
  IN  IF Fails(fault, "create_secret", 0)
      THEN [ trace |-> create, secrets |-> existing, err |-> "unknown" ]
      ELSE [ trace |-> create, secrets |-> existing \cup {"join-token"},
             err |-> None ]

\* create_join_token_secret (lines 182-214) on the Secrets existing: the
\* read, then the creation when the read reports 404; any other failure of
\* the read, and a failure of the creation, is raised.
create_join_token_secret(existing, fault) ==
  LET read == << Call("read_secret", 0, "join-token") >>
      create == << Call("create_secret", 0, "join-token") >>
  IN  IF Fails(fault, "read_secret", 0)
      THEN [ trace |-> read, secrets |-> existing, err |-> "unknown" ]
      ELSE IF "join-token" \in existing
      THEN [ trace |-> read, secrets |-> existing, err |-> None ]
      ELSE IF Fails(fault, "create_secret", 0)
      THEN [ trace |-> read \o create, secrets |-> existing, err |-> "unknown" ]
      ELSE [ trace |-> read \o create, secrets |-> existing \cup {"join-token"},
             err |-> None ]

\* No uid is ever missing.
uid_never_missing(cluster_uid) == FALSE

\* Line 312: `not cluster_uid`.
uid_missing(cluster_uid) == ~Truthy(cluster_uid)

\* A selection without workers is rejected too.
selection_rejected_without_workers(control_plane_nodes, worker_nodes) ==
  control_plane_nodes = << >> \/ worker_nodes = << >>

\* Line 326: `not control_plane_nodes`; the workers are not looked at.
selection_rejected(control_plane_nodes, worker_nodes) ==
  control_plane_nodes = << >>

\* What one run of reconcile_kubernetes_cluster without deletion timestamp
\* does to the cluster, as [children, secrets, status, trace, kind].
reconcile_kubernetes_cluster(descending, fault) ==
  LET unchanged(tr, kind) ==
        [ children |-> children, secrets |-> secrets, status |-> status,
          trace |-> tr, kind |-> kind ]
      listing == list_machines(machines, descending, fault)
      cp == select_machines_for_cluster(spec.controlPlane, "controlPlane", status, listing)
      dp == select_machines_for_cluster(spec.dataPlane, "dataPlane", status, listing)
      control_plane_nodes == cp.selected
      worker_nodes == dp.selected
      t1 == (IF cp.listed THEN << Call("list_machines", 0, << >>) >> ELSE << >>)
            \o (IF dp.listed THEN << Call("list_machines", 0, << >>) >> ELSE << >>)
      token == create_join_token_secret(secrets, fault)
      t3 == t1 \o token.trace
      secrets3 == token.secrets
      info == collect_machines_info(control_plane_nodes \o worker_nodes, machines,
                                    fault, [ trace |-> t3, err |-> None ])
      acc0 == [ children |-> children, applied |-> << >>, trace |-> info.trace,
                err |-> None ]
      acc1 == ensure_children(control_plane_nodes, "control-plane", uid, spec, fault, acc0)
      acc2 == ensure_children(worker_nodes, "worker", uid, spec, fault, acc1)
      t4 == acc2.trace \o << Call("patch_status", 0, << >>) >>
  IN  IF uid_missing(uid) THEN unchanged(<< >>, "permanent")
      ELSE IF selection_rejected(control_plane_nodes, worker_nodes)
      THEN unchanged(t1, "temporary")
      ELSE IF token.err # None THEN unchanged(t3, "unknown")
      ELSE IF info.err # None
      THEN [ unchanged(info.trace, "unknown") EXCEPT !.secrets = secrets3 ]
      ELSE IF acc2.err # None
      THEN [ children |-> acc2.children, secrets |-> secrets3, status |-> status,
             trace |-> acc2.trace, kind |-> "unknown" ]
      ELSE IF Fails(fault, "patch_status", 0)
      THEN [ children |-> acc2.children, secrets |-> secrets3, status |-> status,
             trace |-> t4, kind |-> "unknown" ]
      ELSE [ children |-> acc2.children, secrets |-> secrets3,
             status |-> update_cluster_status(status,
                          reconcile_status(control_plane_nodes, worker_nodes,
                                           acc2.applied)),
             trace |-> t4, kind |-> "success" ]

\* ------------------------------------------------------------- deletion
\* dict.items() of appliedMachines as the API server returns the mapping:
\* by key.
AppliedItems(st) == SortedSeq(DOMAIN st.appliedMachines)

\* The loop over appliedMachines ends at the first delete that fails.
RECURSIVE delete_children_until_failure(_, _, _)
delete_children_until_failure(ms, fault, acc) ==
  IF ms = << >> THEN acc
  ELSE LET m == Head(ms)
           c == status.appliedMachines[m]
           failed == Fails(fault, "delete_child", m) \/ ~acc.children[c].exists
       IN  IF failed
           THEN [ acc EXCEPT !.trace = @ \o << Call("delete_child", c, << >>) >> ]
           ELSE delete_children_until_failure(Tail(ms), fault,
                  [ children |-> [ acc.children EXCEPT ![c] = NoChild ],
                    trace |-> acc.trace \o << Call("delete_child", c, << >>) >> ])

\* handle_cluster_deletion: every delete is tried; a failure (also a 404) is
\* logged and the next one follows.
RECURSIVE delete_children(_, _, _)
delete_children(ms, fault, acc) ==
  IF ms = << >> THEN acc
  ELSE LET m == Head(ms)
           c == status.appliedMachines[m]
       IN  delete_children(Tail(ms), fault,
             [ children |-> IF Fails(fault, "delete_child", m) THEN acc.children
                            ELSE [ acc.children EXCEPT ![c] = NoChild ],
               trace |-> acc.trace \o << Call("delete_child", c, << >>) >> ])

handle_cluster_deletion(fault) ==
  LET acc == delete_children(AppliedItems(status), fault,
                             [ children |-> children, trace |-> << >> ])
      gone == { n \in {"join-token", "kubeconfig"} : ~Fails(fault, "delete_" \o n, 0) }
  IN  [ children |-> acc.children, secrets |-> secrets \ gone, status |-> status,
        trace |-> acc.trace \o << Call("delete_secret", 0, "join-token"),
                                  Call("delete_secret", 0, "kubeconfig") >>,
        kind |-> "deleted" ]

\* -------------------------------------------------------------- monitor
\* Both conditions of the conjunction are replaced by a disjunction.
is_ready_either(child, mach) ==
  Truthy(child.appliedCommit) \/ mach.hasConfiguration = "True"

\* is_ready of lines 725-728.
is_ready(child, mach) ==
  Truthy(child.appliedCommit) /\ mach.hasConfiguration = "True"

\* Workers must be ready even when there are none to count.
phase_of_workers_required(cp_ready, cp_total, dp_ready, dp_total) ==
  LET all_control_plane_ready == cp_ready = cp_total /\ cp_ready > 0
      all_workers_ready == dp_ready = dp_total /\ dp_total > 0
  IN  IF all_control_plane_ready /\ all_workers_ready THEN "Ready"
      ELSE IF all_control_plane_ready THEN "ControlPlaneReady"
      ELSE "Provisioning"

\* The phase of lines 747-759.
phase_of(cp_ready, cp_total, dp_ready, dp_total) ==
  LET all_control_plane_ready == cp_ready = cp_total /\ cp_ready > 0
      all_workers_ready == (dp_ready = dp_total /\ dp_total > 0) \/ dp_total = 0
  IN  IF all_control_plane_ready /\ all_workers_ready THEN "Ready"
      ELSE IF all_control_plane_ready THEN "ControlPlaneReady"
      ELSE "Provisioning"

\* extract_kubeconfig_from_control_plane: nothing without a ready node;
\* otherwise what the SSH session to the first one yields (harvest).
extract_kubeconfig_from_control_plane(ready_control_plane_nodes, harvest) ==
  IF ready_control_plane_nodes = << >> THEN None ELSE harvest

\* The existing Secret is not looked for: every tick with a ready control
\* plane harvests.
kubeconfig_always_missing(existing, fault) == TRUE

\* Lines 764-771: the read of the kubeconfig Secret reports 404.
kubeconfig_missing(existing, fault) ==
  ~Fails(fault, "read_secret", 0) /\ "kubeconfig" \notin existing

\* An exception of the kubeconfig block ends the tick.
kubeconfig_block_reraises(err) == err # None

\* Lines 789-792, `except Exception`: whether the exception err of the
\* kubeconfig block leaves the block. It is logged and counted.
kubeconfig_block_raises(err) == FALSE

\* One tick of monitor_cluster_status with a non-empty appliedMachines, as
\* [children, secrets, status, trace, kind].
monitor_cluster_status(fault, harvest) ==
  LET applied_configs == status.appliedMachines
      \* Entries whose child and Machine are both fetched (lines 711-745).
      fetched == { m \in DOMAIN applied_configs :
                     /\ ~Fails(fault, "get_child", m)
                     /\ children[applied_configs[m]].exists
                     /\ get_machine_ok(machines, m, fault) }
      config(m) == children[applied_configs[m]]
      is_control_plane(m) == GetOr(config(m).role, "worker") = "control-plane"
      ready(m) == is_ready(config(m), machines[m])
      cp == { m \in fetched : is_control_plane(m) }
      dp == fetched \ cp
      control_plane_ready == Cardinality({ m \in cp : ready(m) })
      data_plane_ready == Cardinality({ m \in dp : ready(m) })
      total_control_plane == Cardinality(cp)
      total_data_plane == Cardinality(dp)
      ready_control_plane_nodes == SortedSeq({ m \in cp : ready(m) })
      phase == phase_of(control_plane_ready, total_control_plane,
                        data_plane_ready, total_data_plane)
      all_control_plane_ready ==
        control_plane_ready = total_control_plane /\ control_plane_ready > 0
      kubeconfig == extract_kubeconfig_from_control_plane(ready_control_plane_nodes,
                                                          harvest)
      reads == all_control_plane_ready
      harvests == reads /\ kubeconfig_missing(secrets, fault)
      creates == harvests /\ Truthy(kubeconfig)
      created == creates /\ ~Fails(fault, "create_secret", 0)
      block_err == IF \/ reads /\ Fails(fault, "read_secret", 0)
                      \/ creates /\ Fails(fault, "create_secret", 0)
                   THEN "ApiException" ELSE None
      aborted == kubeconfig_block_raises(block_err)
      written == ~aborted /\ ~Fails(fault, "patch_status", 0)
      tr == [ i \in 1..Len(AppliedItems(status)) |->
                Call("get_child", AppliedItems(status)[i], << >>) ]
            \o (IF reads THEN << Call("read_secret", 0, "kubeconfig") >> ELSE << >>)
            \o (IF harvests THEN << Call("harvest", 0, ready_control_plane_nodes) >>
                ELSE << >>)
            \o (IF creates THEN << Call("create_secret", 0, "kubeconfig") >> ELSE << >>)
            \o (IF aborted THEN << >> ELSE << Call("patch_status", 0, << >>) >>)
      status_update ==
        [ phase |-> phase,
          controlPlaneReady |-> << control_plane_ready, total_control_plane >>,
          dataPlaneReady |-> << data_plane_ready, total_data_plane >>,
          kubeconfigSecret |-> "kubeconfig",
          conditions |-> << [ type |-> "Ready",
                              status |-> IF phase = "Ready" THEN "True" ELSE "False",
                              reason |-> IF phase = "Ready" THEN "AllNodesReady"
                                         ELSE phase ] >> ]
  IN  [ children |-> children,
        secrets |-> IF created THEN secrets \cup {"kubeconfig"} ELSE secrets,
        status |-> IF written THEN update_cluster_status(status, status_update)
                   ELSE status,
        trace |-> tr,
        kind |-> IF written THEN "written" ELSE "failed" ]

\* The tick writes even when no child has been recorded.
monitor_never_returns_early(st) == FALSE

\* The tick returns before it reads anything, whatever the status holds.
monitor_always_returns_early(st) == TRUE

\* Lines 700-701: the tick returns when appliedMachines is empty.
monitor_returns_early(st) == st.appliedMachines = << >>

\* ------------------------------------------------------- the operator
MaxEnvSteps == 2

GitRepoNames == {"g1"}
RefValues == {None, "", "v1"}

\* A role given by selector and count, and one given by an explicit list.
BySelector(label, n) == [ machines |-> << >>, matchLabels |-> {label}, count |-> n ]
Explicit(ms) == [ machines |-> ms, matchLabels |-> {}, count |-> 0 ]

\* An absent role: role_spec is {} and count reads 0.
NoRole == [ machines |-> << >>, matchLabels |-> {}, count |-> 0 ]

ControlPlaneSpecs ==
  { BySelector("r=cp", 1), BySelector("r=cp", 2), Explicit(<< 2 >>),
    Explicit(<< 2, 1 >>), NoRole }

DataPlaneSpecs ==
  { NoRole, BySelector("r=w", 1), Explicit(<< 1 >>) }

ClusterSpecs ==
  [ gitRepo : GitRepoNames, ref : RefValues, configurationSubdir : {None},
    credentialsRef : {None}, controlPlane : ControlPlaneSpecs,
    dataPlane : DataPlaneSpecs ]

\* The pool at the start: every Machine exists and is free; the last one
\* carries the worker label, the others the control-plane label.
InitialPool ==
  [ m \in Machines |->
      [ exists |-> TRUE, labels |-> IF m = MaxMachines THEN {"r=w"} ELSE {"r=cp"},
        hasConfiguration |-> "False" ] ]

\* The delay of the kopf.TemporaryError raised at lines 327-329 and 512.
RetryDelay == 60

\* Only the error the handler raised itself asks for a retry.
delay_of_temporary_only(kind) == IF kind = "temporary" THEN RetryDelay ELSE 0

\* The retry the framework is asked for when a handler run ends with kind:
\* 0 stands for none.
delay_of(kind) == IF kind \in {"temporary", "unknown"} THEN RetryDelay ELSE 0

NoOutcome == [ handler |-> "none", kind |-> None, fault |-> NoFault, delay |-> 0 ]

MachineFaults(ops) == { [ op |-> o, m |-> m ] : o \in ops, m \in Machines }
GlobalFaults(ops) == { [ op |-> o, m |-> 0 ] : o \in ops }

ReconcileFaults ==
  {NoFault}
    \cup GlobalFaults({"list_machines", "read_secret", "create_secret", "patch_status"})
    \cup MachineFaults({"get_machine", "get_child", "patch_child", "create_child"})

MonitorFaults ==
  {NoFault}
    \cup GlobalFaults({"read_secret", "create_secret", "patch_status"})
    \cup MachineFaults({"get_machine", "get_child"})

DeletionFaults ==
  {NoFault}
    \cup GlobalFaults({"delete_join-token", "delete_kubeconfig"})
    \cup MachineFaults({"delete_child"})

\* What the SSH session of the harvester can yield.
Harvests == {None, "kubeconfig-yaml"}

\* Some control-plane child has a non-empty appliedCommit while its Machine
\* reports hasConfiguration=true.
SomeControlPlaneReady(ch, pool) ==
  \E m \in Machines :
    /\ ch[m].exists /\ ch[m].role = "control-plane"
    /\ ch[m].appliedCommit \notin {None, ""}
    /\ pool[m].exists /\ pool[m].hasConfiguration = "True"

Init ==
  /\ spec \in ClusterSpecs
  /\ uid = "uid-1"
  /\ deletionTimestamp = FALSE
  /\ machines = InitialPool
  /\ children = [ m \in Machines |-> NoChild ]
  /\ secrets = {}
  /\ status = EmptyStatus
  /\ trace = << >>
  /\ outcome = NoOutcome
  /\ envSteps = 0
  /\ cpEverReady = FALSE
  /\ call = [ fn |-> "none" ]
  /\ result = << >>
  /\ loop = NoLoop

\* A failure of an API call is an event of the environment; one that makes
\* no difference to the run is not told apart from no failure.
Injected(fault, differs) == fault # NoFault => (envSteps < MaxEnvSteps /\ differs)

\* A handler run took the cluster to r with the failure fault injected.
Handled(handler, r, fault) ==
  /\ children' = r.children
  /\ secrets' = r.secrets
  /\ status' = r.status
  /\ trace' = r.trace
  /\ outcome' = [ handler |-> handler, kind |-> r.kind, fault |-> fault,
                  delay |-> delay_of(r.kind) ]
  /\ envSteps' = IF fault = NoFault THEN envSteps ELSE envSteps + 1
  /\ UNCHANGED << spec, uid, deletionTimestamp, machines, cpEverReady, call, result,
                  loop >>

\* The unified handler of main.py on a cluster that is not being deleted.
Reconcile ==
  /\ call.fn = "none"
  /\ ~deletionTimestamp
  /\ \E descending \in BOOLEAN, fault \in ReconcileFaults :
       LET r == reconcile_kubernetes_cluster(descending, fault)
       IN  /\ Injected(fault, r # reconcile_kubernetes_cluster(descending, NoFault))
           /\ Handled("reconcile", r, fault)

\* The unified handler on a cluster with a deletion timestamp (lines 303-308).
ReconcileDeletion ==
  /\ call.fn = "none"
  /\ deletionTimestamp
  /\ \E fault \in DeletionFaults :
       LET r == handle_cluster_deletion(fault)
       IN  /\ Injected(fault, r # handle_cluster_deletion(NoFault))
           /\ Handled("deletion", r, fault)

\* One tick of the 30 s timer.
MonitorTick ==
  /\ call.fn = "none"
  /\ ~deletionTimestamp
  /\ IF monitor_returns_early(status)
     THEN Handled("monitor", [ children |-> children, secrets |-> secrets,
                               status |-> status, trace |-> << >>,
                               kind |-> "returned" ], NoFault)
     ELSE \E fault \in MonitorFaults, harvest \in Harvests :
            LET r == monitor_cluster_status(fault, harvest)
            IN  /\ Injected(fault, r # monitor_cluster_status(NoFault, harvest))
                /\ Handled("monitor", r, fault)

\* Something outside the core changes the world: the handlers' record of
\* their last run is cleared.
EnvStep ==
  /\ call.fn = "none"
  /\ envSteps < MaxEnvSteps
  /\ envSteps' = envSteps + 1
  /\ trace' = << >>
  /\ outcome' = NoOutcome
  /\ UNCHANGED << uid, secrets, status, call, result, loop >>

\* A user edits one field of the cluster spec.
EditSpec ==
  /\ EnvStep
  /\ \E s2 \in ClusterSpecs :
       /\ Cardinality({ k \in DOMAIN spec : s2[k] # spec[k] }) = 1
       /\ spec' = s2
  /\ UNCHANGED << deletionTimestamp, machines, children, cpEverReady >>

\* A user deletes the cluster: the API server sets the deletion timestamp.
MarkDeleted ==
  /\ EnvStep
  /\ ~deletionTimestamp
  /\ deletionTimestamp' = TRUE
  /\ UNCHANGED << spec, machines, children, cpEverReady >>

\* The machine operator reports a Machine as configured, or as free again.
SetHasConfiguration ==
  /\ EnvStep
  /\ \E m \in Machines, v \in {"True", "False"} :
       /\ machines[m].exists /\ machines[m].hasConfiguration # v
       /\ machines' = [ machines EXCEPT ![m].hasConfiguration = v ]
  /\ cpEverReady' = (cpEverReady \/ SomeControlPlaneReady(children, machines'))
  /\ UNCHANGED << spec, deletionTimestamp, children >>

\* A Machine object is removed.
DeleteMachine ==
  /\ EnvStep
  /\ \E m \in Machines :
       /\ machines[m].exists
       /\ machines' = [ machines EXCEPT ![m].exists = FALSE ]
  /\ UNCHANGED << spec, deletionTimestamp, children, cpEverReady >>

\* The configuration operator applies a child to its Machine: the child
\* reports the commit, the Machine reports that it is configured.
ConfigApplied ==
  /\ EnvStep
  /\ \E m \in Machines :
       /\ children[m].exists /\ children[m].appliedCommit = None
       /\ machines[m].exists
       /\ children' = [ children EXCEPT ![m].appliedCommit = "abc" ]
       /\ machines' = [ machines EXCEPT ![m].hasConfiguration = "True" ]
  /\ cpEverReady' = (cpEverReady \/ SomeControlPlaneReady(children', machines'))
  /\ UNCHANGED << spec, deletionTimestamp >>

Next ==
  \/ Reconcile
  \/ ReconcileDeletion
  \/ MonitorTick
  \/ EditSpec
  \/ MarkDeleted
  \/ SetHasConfiguration
  \/ DeleteMachine
  \/ ConfigApplied

Spec == Init /\ [][Next]_vars

\* ------------------------------------------- the operator with its timer
\* The cluster followed under the timer: one control-plane machine and one
\* worker, both named in the spec.
InitTimer ==
  /\ Init
  /\ spec.controlPlane = Explicit(<< 2 >>)
  /\ spec.dataPlane = Explicit(<< 1 >>)
  /\ spec.ref = None

\* kopf.timer(..., interval=30.0) at line 691 fires the monitor again and
\* again for as long as the cluster is there and not being deleted.
SpecTimer == InitTimer /\ [][Next]_vars /\ WF_vars(MonitorTick)

\* ------------------------------------------ a cluster object without uid
\* The cluster object reaches the handlers without metadata.uid, or with an
\* empty one; everything else is as in Init.
InitNoUid ==
  /\ spec \in ClusterSpecs
  /\ uid \in {None, ""}
  /\ deletionTimestamp = FALSE
  /\ machines = InitialPool
  /\ children = [ m \in Machines |-> NoChild ]
  /\ secrets = {}
  /\ status = EmptyStatus
  /\ trace = << >>
  /\ outcome = NoOutcome
  /\ envSteps = 0
  /\ cpEverReady = FALSE
  /\ call = [ fn |-> "none" ]
  /\ result = << >>
  /\ loop = NoLoop

\* The handlers and the environment; no child exists for the configuration
\* operator to apply.
NextNoUid ==
  \/ Reconcile
  \/ ReconcileDeletion
  \/ MonitorTick
  \/ EditSpec
  \/ MarkDeleted
  \/ SetHasConfiguration
  \/ DeleteMachine

SpecNoUid == InitNoUid /\ [][NextNoUid]_vars

\* ------------------------------------ the handlers on the event loop
\* The API calls a handler reaches through `await` (handlers 203, 390, 397,
\* 450, 457, 468, 526, 535, 543, 775, 779, 811); the others are plain calls.
AwaitedCalls ==
  {"create_secret", "patch_child", "create_child", "patch_status", "harvest",
   "delete_child", "delete_secret"}

\* The calls whose body gives control back to the event loop before it
\* returns: none. Every function of clients.py calls the synchronous
\* Kubernetes client and awaits nothing (clients.py:75-291), and the
\* kubeconfig is fetched with subprocess.run (handlers 620, 643).
SuspendingCalls == {}

\* Every awaited call gives control back to the loop, as a client built on
\* asynchronous I/O would.
suspends_at_every_await(op) == op \in AwaitedCalls

\* The coroutine is suspended at the call op.
Suspends(op) == op \in AwaitedCalls /\ op \in SuspendingCalls

\* What the handler h does when it starts on the cluster as it is.
RunOf(h, descending, harvest) ==
  IF h = "reconcile" THEN reconcile_kubernetes_cluster(descending, NoFault)
  ELSE IF monitor_returns_early(status)
  THEN [ children |-> children, secrets |-> secrets, status |-> status,
         trace |-> << >>, kind |-> "returned" ]
  ELSE monitor_cluster_status(NoFault, harvest)

LoopOnly ==
  UNCHANGED << spec, uid, deletionTimestamp, machines, children, secrets,
               status, trace, outcome, envSteps, cpEverReady, call, result >>

\* An event for the cluster arrives, or the timer is due: the task is
\* queued on the loop.
Arrive ==
  /\ \E h \in Handlers :
       /\ loop.tasks[h].state = "idle"
       /\ loop' = [ loop EXCEPT !.tasks[h].state = "ready" ]
  /\ LoopOnly

\* The loop is free and takes up a queued task, or one whose awaited call
\* has completed.
Dispatch ==
  /\ loop.running = None
  /\ \E h \in Handlers, descending \in BOOLEAN, harvest \in Harvests :
       /\ loop.tasks[h].state \in {"ready", "waiting"}
       /\ loop' = [ loop EXCEPT
                      !.running = h,
                      !.tasks[h].state = "running",
                      !.tasks[h].run = IF loop.tasks[h].state = "ready"
                                       THEN RunOf(h, descending, harvest)
                                       ELSE @ ]
  /\ LoopOnly

\* The running task issues its next API call; the loop is given back where
\* the call suspends the coroutine.
TaskStep ==
  /\ \E h \in Handlers :
       LET t == loop.tasks[h]
       IN  /\ loop.running = h
           /\ t.pc < Len(t.run.trace)
           /\ LET suspended == Suspends(t.run.trace[t.pc + 1].op)
              IN  loop' = [ loop EXCEPT
                              !.running = IF suspended THEN None ELSE h,
                              !.tasks[h].pc = t.pc + 1,
                              !.tasks[h].state = IF suspended THEN "waiting"
                                                 ELSE "running" ]
  /\ LoopOnly

\* The running task has issued its last call and returns.
Return ==
  \E h \in Handlers :
    LET t == loop.tasks[h]
    IN  /\ loop.running = h
        /\ t.pc = Len(t.run.trace)
        /\ children' = t.run.children
        /\ secrets' = t.run.secrets
        /\ status' = t.run.status
        /\ trace' = t.run.trace
        /\ outcome' = [ handler |-> h, kind |-> t.run.kind, fault |-> NoFault,
                        delay |-> delay_of(t.run.kind) ]
        /\ loop' = [ loop EXCEPT !.running = None, !.tasks[h] = IdleTask ]
        /\ UNCHANGED << spec, uid, deletionTimestamp, machines, envSteps,
                        cpEverReady, call, result >>

NextLoop ==
  \/ Arrive
  \/ Dispatch
  \/ TaskStep
  \/ Return

SpecLoop == Init /\ [][NextLoop]_vars

\* ---------------------------------------- selection as a function (inputs)
SelLists == DistinctSeqs(Machines, MaxSel)

MatchLabelSets == { {}, {"r=cp"}, {"r=cp", "env=prod"} }

RoleSpecs ==
  [ machines : SelLists, matchLabels : MatchLabelSets, count : 0..MaxCount ]

PoolEntries ==
  [ exists : {FALSE}, labels : { {} }, hasConfiguration : {None} ]
    \cup [ exists : {TRUE}, labels : { {"r=cp"}, {"r=cp", "env=prod"}, {"r=w"} },
           hasConfiguration : {"False"} ]
    \cup [ exists : {TRUE}, labels : { {"r=cp"} }, hasConfiguration : {"True", None} ]

Pools == [ Machines -> PoolEntries ]

\* Pools in which every Machine is either missing or free and labelled r=cp.
PlainPools ==
  [ Machines -> { [ exists |-> FALSE, labels |-> {}, hasConfiguration |-> None ],
                  [ exists |-> TRUE, labels |-> {"r=cp"}, hasConfiguration |-> "False" ] } ]

Idle ==
  /\ spec = << >> /\ uid = None /\ deletionTimestamp = FALSE
  /\ machines = << >> /\ children = << >> /\ secrets = {}
  /\ status = EmptyStatus /\ trace = << >> /\ outcome = None
  /\ envSteps = 0 /\ cpEverReady = FALSE
  /\ loop = NoLoop

\* One call of select_machines_for_cluster: own is the persisted selection
\* of the role asked for, other that of the other role.
SelectCall(role, roleSpec, own, other, pool) ==
  [ fn |-> "select", role |-> role, roleSpec |-> roleSpec,
    selectedControlPlaneMachines |-> IF role = "controlPlane" THEN own ELSE other,
    selectedDataPlaneMachines |-> IF role = "controlPlane" THEN other ELSE own,
    pool |-> pool ]

\* The calls studied: any explicit list and persisted selection against a
\* plain pool, and no list and no persisted selection for the role against
\* any pool.
InitSelect ==
  /\ Idle
  /\ result = << >>
  /\ \E r \in {"controlPlane", "dataPlane"}, other \in { << >>, << 1 >> } :
       \/ \E rs \in RoleSpecs, own \in SelLists, pool \in PlainPools :
            call = SelectCall(r, rs, own, other, pool)
       \/ \E ml \in MatchLabelSets, n \in 0..MaxCount, pool \in Pools :
            call = SelectCall(r, [ machines |-> << >>, matchLabels |-> ml,
                                   count |-> n ], << >>, other, pool)

ApplySelect ==
  /\ call.fn = "select" /\ result = << >>
  /\ \E descending \in BOOLEAN :
       result' = select_machines_for_cluster(
                   call.roleSpec, call.role,
                   [ EmptyStatus EXCEPT
                       !.selectedControlPlaneMachines = call.selectedControlPlaneMachines,
                       !.selectedDataPlaneMachines = call.selectedDataPlaneMachines ],
                   Listing(call.pool, descending))
  /\ UNCHANGED << spec, uid, deletionTimestamp, machines, children, secrets,
                  status, trace, outcome, envSteps, cpEverReady, call, loop >>

NextSelect == ApplySelect

SpecSelect == InitSelect /\ [][NextSelect]_vars

\* ---------------------------------------------- drift as a function
GitRepos == {"g1", "g2"}
Refs == {None, "", "v1", "v2"}
Subdirs == {None, "", "sub"}
CredentialsRefs == {None, "{}", "c1"}

\* The drift fields of a parent spec, and of an existing child's spec.
DriftSpecs ==
  [ gitRepo : GitRepos, ref : Refs, configurationSubdir : Subdirs,
    credentialsRef : CredentialsRefs ]

\* The fields of a child's spec that are written once, at creation.
WriteOnce(m) ==
  [ flake |-> m, onRemoveFlake |-> "#minimal", machineRef |-> m,
    fullInstall |-> TRUE, additionalFiles |-> << "cluster.nix", "join-token" >> ]

InitDrift ==
  /\ Idle
  /\ result = << >>
  /\ \E parent \in DriftSpecs, existing \in DriftSpecs :
       call = [ fn |-> "drift", parent |-> parent, existing |-> existing @@ WriteOnce(1) ]

\* The existing-child branch of the ensure loop: compute spec_updates, and
\* patch when it is not empty (lines 356-391).
ApplyDrift ==
  /\ call.fn = "drift" /\ result = << >>
  /\ LET updates == spec_updates(call.parent, call.existing)
     IN  result' = [ spec_updates |-> updates,
                     patched |-> updates # << >>,
                     child |-> IF updates # << >>
                               THEN patch_nixos_configuration_spec(call.existing, updates)
                               ELSE call.existing ]
  /\ UNCHANGED << spec, uid, deletionTimestamp, machines, children, secrets,
                  status, trace, outcome, envSteps, cpEverReady, call, loop >>

NextDrift == ApplyDrift

SpecDrift == InitDrift /\ [][NextDrift]_vars

\* ---------------------------------- the topology document as a function
\* generate_cluster_config works on names; the machines_info it is given
\* maps a name to its entry, here [present, hostname, ipAddress] with None
\* for a key that is absent and present = FALSE for a name without entry.
TopologyNames == {"cp-01", "w-01"}

Hostnames == {None, "", "cp-01.local"}

IpAddresses == {None, "", "192.168.1.10"}

NoInfo == [ present |-> FALSE, hostname |-> None, ipAddress |-> None ]

InfoEntries ==
  {NoInfo} \cup [ present : {TRUE}, hostname : Hostnames, ipAddress : IpAddresses ]

\* Lines 339-342: what the reconciler records for a Machine whose spec has
\* the given hostname and ipAddress: an absent key is stored as "".
record_machine_info(entry) ==
  [ present |-> TRUE,
    hostname |-> GetOr(entry.hostname, ""),
    ipAddress |-> GetOr(entry.ipAddress, "") ]

\* Lines 140-141 and 150-151:
\* machine_info.get("ipAddress") or machine_info.get("hostname", "unknown").
ip_address(machine_info) ==
  IF Truthy(machine_info.ipAddress) THEN machine_info.ipAddress
  ELSE IF machine_info.hostname = None THEN "unknown"
  ELSE machine_info.hostname

\* Lines 138-145, 148-155: the nodes of a role with their ip, in input order.
nodes_with_ips(node_names, machines_info) ==
  [ i \in DOMAIN node_names |->
      [ name |-> node_names[i], ip |-> ip_address(machines_info[node_names[i]]) ] ]

\* Lines 159 and 164: one node as a Nix attribute set.
node_nix(node) ==
  "    { name = \"" \o node.name \o "\"; ip = \"" \o node.ip \o "\"; }"

\* Lines 158-166: "[\n" + "\n".join(...) + "\n  ]", as the lines of the text;
\* an empty join leaves one empty line between the brackets.
nix_list(nodes) ==
  << "[" >>
    \o (IF nodes = << >> THEN << "" >> ELSE [ i \in DOMAIN nodes |-> node_nix(nodes[i]) ])
    \o << "  ]" >>

\* The lines of an attribute `key = <list>;` of the cluster set.
nix_attribute(key, list) ==
  [ i \in DOMAIN list |->
      IF i = 1 THEN "    " \o key \o " = " \o list[i]
      ELSE IF i = Len(list) THEN list[i] \o ";"
      ELSE list[i] ]

\* generate_cluster_config (lines 129-179): the text, line by line.
generate_cluster_config(cluster_name, control_plane_nodes, worker_nodes, machines_info) ==
  << "",
     "{ config, pkgs, ... }:",
     "{",
     "  # Cluster configuration generated by NICO",
     "  # Includes IP addresses for HAProxy configuration at build time",
     "  cluster = {",
     "    name = \"" \o cluster_name \o "\";" >>
    \o nix_attribute("controlPlane",
                     nix_list(nodes_with_ips(control_plane_nodes, machines_info)))
    \o nix_attribute("workers",
                     nix_list(nodes_with_ips(worker_nodes, machines_info)))
    \o << "  };", "}", "" >>

\* The calls studied: any two lists of nodes, with the machines_info either
\* given as it is or recorded by the reconciler from the Machines.
InitTopology ==
  /\ Idle
  /\ result = << >>
  /\ \E cp \in DistinctSeqs(TopologyNames, MaxSel),
        w \in DistinctSeqs(TopologyNames, MaxSel),
        info \in [ TopologyNames -> InfoEntries ],
        recorded \in BOOLEAN :
       /\ recorded => \A n \in TopologyNames : info[n].present
       /\ call = [ fn |-> "topology", cluster_name |-> "test-cluster",
                   control_plane_nodes |-> cp, worker_nodes |-> w,
                   machines |-> info, recorded |-> recorded ]

ApplyTopology ==
  /\ call.fn = "topology" /\ result = << >>
  /\ LET machines_info ==
           [ n \in TopologyNames |->
               IF call.recorded THEN record_machine_info(call.machines[n])
               ELSE call.machines[n] ]
     IN  result' = [ machines_info |-> machines_info,
                     text |-> generate_cluster_config(
                                call.cluster_name, call.control_plane_nodes,
                                call.worker_nodes, machines_info) ]
  /\ UNCHANGED << spec, uid, deletionTimestamp, machines, children, secrets,
                  status, trace, outcome, envSteps, cpEverReady, call, loop >>

NextTopology == ApplyTopology

SpecTopology == InitTopology /\ [][NextTopology]_vars

\* ------------------------------------ the metrics sink as a state machine
\* A status string is a sequence of characters.
MaxStrLen == 3

MaxApply == 2

Chars == {"1", "2", "/", "x"}

Strings == UNION { [1..n -> Chars] : n \in 0..MaxStrLen }

\* The phases update_cluster_metrics keeps a gauge for (line 120).
KnownPhases == {"Provisioning", "Ready", "Failed", "Deleting", "ControlPlaneReady"}

\* A field of the status handed to update_cluster_metrics: absent, a string,
\* or a value of another JSON type.
Absent == [ kind |-> "absent", chars |-> << >> ]

NotAString == [ kind |-> "other", chars |-> << >> ]

Str(chars) == [ kind |-> "str", chars |-> chars ]

\* str.split("/").
RECURSIVE split(_)
split(chars) ==
  IF \A i \in DOMAIN chars : chars[i] # "/" THEN << chars >>
  ELSE LET k == CHOOSE i \in DOMAIN chars :
                  chars[i] = "/" /\ \A j \in 1..(i - 1) : chars[j] # "/"
       IN  << SubSeq(chars, 1, k - 1) >> \o split(SubSeq(chars, k + 1, Len(chars)))

\* int(part) on these characters: a non-empty run of digits, base ten;
\* anything else is a ValueError.
is_int(part) == part # << >> /\ \A i \in DOMAIN part : part[i] \in {"1", "2"}

RECURSIVE int(_)
int(part) ==
  IF part = << >> THEN 0
  ELSE 10 * int(SubSeq(part, 1, Len(part) - 1))
         + (IF part[Len(part)] = "1" THEN 1 ELSE 2)

\* ready, total = map(int, s.split("/")) of lines 132 and 143, with the
\* exception it ends in: AttributeError for a value without split,
\* ValueError for a part that is no int or a number of parts other than two.
parse_ready(field, default) ==
  LET value == IF field.kind = "absent" THEN Str(default) ELSE field
      parts == split(value.chars)
  IN  IF value.kind # "str"
      THEN [ err |-> "AttributeError", ready |-> 0, total |-> 0 ]
      ELSE IF Len(parts) # 2 \/ \E i \in DOMAIN parts : ~is_int(parts[i])
      THEN [ err |-> "ValueError", ready |-> 0, total |-> 0 ]
      ELSE [ err |-> None, ready |-> int(parts[1]), total |-> int(parts[2]) ]

\* The ready gauge is set as soon as the first part is read.
set_node_gauges_one_by_one(gauge, field) ==
  LET value == IF field.kind = "absent" THEN Str(<< "0", "/", "0" >>) ELSE field
      parts == split(value.chars)
      parsed == parse_ready(field, << "0", "/", "0" >>)
  IN  IF parsed.err = None
      THEN [ ready |-> parsed.ready, total |-> parsed.total ]
      ELSE IF value.kind = "str" /\ is_int(parts[1])
      THEN [ gauge EXCEPT !.ready = int(parts[1]) ]
      ELSE gauge

\* Lines 131-140 and 142-151: both gauges of a role are set after the
\* string is parsed; ValueError and AttributeError are passed over.
set_node_gauges(gauge, field) ==
  LET parsed == parse_ready(field, << "0", "/", "0" >>)
  IN  IF parsed.err = None
      THEN [ ready |-> parsed.ready, total |-> parsed.total ]
      ELSE gauge

\* Lines 117-125: the gauge of the status phase is incremented, the gauges
\* of the other known phases are set to 0.
set_phase_gauges(gauges, phase) ==
  LET p == IF phase = None THEN "Unknown" ELSE phase
  IN  [ q \in KnownPhases |-> IF q = p THEN gauges[q] + 1 ELSE 0 ]

\* Line 153, `except Exception`: the exceptions the function's outer
\* handler logs instead of raising.
LoggedErrors == {"AttributeError", "ValueError", "TypeError", "KeyError"}

\* update_cluster_metrics (lines 114-154) on the registry reg. A status
\* that is no mapping has no get (line 117): the AttributeError is raised
\* outside the inner handlers, before any gauge is touched.
update_cluster_metrics(reg, st) ==
  LET err == IF st.is_mapping THEN None ELSE "AttributeError"
  IN  IF err # None
      THEN [ reg EXCEPT !.raised = err \notin LoggedErrors ]
      ELSE [ clusters_by_phase |->
               set_phase_gauges(reg.clusters_by_phase, st.phase),
             cluster_control_plane_nodes |->
               set_node_gauges(reg.cluster_control_plane_nodes, st.controlPlaneReady),
             cluster_worker_nodes |->
               set_node_gauges(reg.cluster_worker_nodes, st.dataPlaneReady),
             raised |-> FALSE ]

\* Status strings every handler of the core can write, and a malformed one.
TypicalFields == { Str(<< "1", "/", "2" >>), Str(<< "x" >>), Absent }

AllFields == { Str(s) : s \in Strings } \cup { Absent, NotAString }

MetricPhases == { "Ready", "Provisioning", "Pending", None }

\* The registry before the calls studied: every gauge at the value prior.
Registry(prior) ==
  [ clusters_by_phase |-> [ q \in KnownPhases |-> prior ],
    cluster_control_plane_nodes |-> [ ready |-> prior, total |-> prior ],
    cluster_worker_nodes |-> [ ready |-> prior, total |-> prior ],
    raised |-> FALSE ]

InitMetrics ==
  /\ Idle
  /\ \E phase \in MetricPhases, cp \in AllFields, dp \in AllFields,
        prior \in {0, 7}, is_mapping \in BOOLEAN :
       /\ cp \in TypicalFields \/ dp \in TypicalFields
       /\ ~is_mapping => (phase = None /\ cp = Absent /\ dp = Absent)
       /\ call = [ fn |-> "metrics",
                   status |-> [ is_mapping |-> is_mapping, phase |-> phase,
                                controlPlaneReady |-> cp, dataPlaneReady |-> dp ],
                   before |-> Registry(prior) ]
       /\ result = [ applied |-> 0, registry |-> Registry(prior),
                     once |-> Registry(prior) ]

\* One more call of update_cluster_metrics with the same arguments; once
\* keeps the registry as the first call left it.
ApplyMetrics ==
  /\ call.fn = "metrics"
  /\ result.applied < MaxApply
  /\ LET reg == update_cluster_metrics(result.registry, call.status)
     IN  result' = [ applied |-> result.applied + 1,
                     registry |-> reg,
                     once |-> IF result.applied = 0 THEN reg ELSE result.once ]
  /\ UNCHANGED << spec, uid, deletionTimestamp, machines, children, secrets,
                  status, trace, outcome, envSteps, cpEverReady, call, loop >>

NextMetrics == ApplyMetrics

SpecMetrics == InitMetrics /\ [][NextMetrics]_vars

\* ------------------------------------ the body of a new child as a function
\* The value of the annotation nico.homystack.com/fullInstallationApplied of
\* a Machine: None when the Machine does not carry it, else its string.
AnnotationValues == {None, "", "true", "false"}

\* spec.sshKeySecretRef of a Machine: not declared, or a reference by name.
NoSshKey == [ declared |-> FALSE, name |-> None ]

SshKeySecretRefs ==
  { NoSshKey, [ declared |-> TRUE, name |-> "ssh-key" ],
    [ declared |-> TRUE, name |-> "" ] }

MachineObjects ==
  [ fullInstallationApplied : AnnotationValues, sshKeySecretRef : SshKeySecretRefs ]

\* Lines 235-236: annotations.get("nico.homystack.com/fullInstallationApplied").
has_full_install(machine) == machine.fullInstallationApplied

\* Lines 239-241: the name of the declared reference, else None.
ssh_key_secret(machine) ==
  IF machine.sshKeySecretRef.declared THEN machine.sshKeySecretRef.name ELSE None

\* Lines 244-263: cluster.nix and join-token, and machine-ssh-key appended
\* under `if ssh_key_secret`.
additional_files(cluster_config, join_token_secret, machine) ==
  << [ path |-> "cluster.nix", valueType |-> "Inline", inline |-> cluster_config ],
     [ path |-> "join-token", valueType |-> "SecretRef",
       secretRef |-> join_token_secret ] >>
    \o (IF Truthy(ssh_key_secret(machine))
        THEN << [ path |-> "machine-ssh-key", valueType |-> "SecretRef",
                  secretRef |-> ssh_key_secret(machine) ] >>
        ELSE << >>)

\* Line 266 (and 349, 409): f"{cluster_name}-{machine_name}".
config_name(cluster_name, machine_name) == cluster_name \o "-" \o machine_name

\* Lines 269-285: the spec of the child; None stands for a key that is not
\* set. fullInstall is `not has_full_install`, the Python truth of the value.
nixos_config_spec(machine_name, machine, cluster_spec, cluster_config, join_token_secret) ==
  [ gitRepo |-> cluster_spec.gitRepo,
    flake |-> "#" \o machine_name,
    onRemoveFlake |-> "#minimal",
    configurationSubdir |-> GetOr(cluster_spec.configurationSubdir, ""),
    machineRef |-> [ name |-> machine_name ],
    fullInstall |-> ~Truthy(has_full_install(machine)),
    additionalFiles |-> additional_files(cluster_config, join_token_secret, machine),
    ref |-> IF Truthy(cluster_spec.ref) THEN cluster_spec.ref ELSE None,
    credentialsRef |-> IF Truthy(cluster_spec.credentialsRef)
                       THEN cluster_spec.credentialsRef ELSE None ]

\* create_nixos_configuration_with_owner (clients.py:172-211): the object
\* sent to the API server.
create_nixos_configuration_with_owner(name, child_spec, owner_name, owner_uid, role) ==
  [ name |-> name,
    labels |-> [ cluster |-> owner_name, role |-> role ],
    ownerReferences |-> OwnerReferences(owner_name, owner_uid),
    spec |-> child_spec ]

\* The creations studied: any Machine object and any parent spec, for a
\* cluster of one control-plane node and one worker.
InitChild ==
  /\ Idle
  /\ result = << >>
  /\ \E n \in TopologyNames, machine \in MachineObjects, parent \in DriftSpecs,
        role \in {"control-plane", "worker"} :
       call = [ fn |-> "create", cluster_name |-> "test-cluster",
                cluster_uid |-> "uid-1", machine_name |-> n, machine |-> machine,
                role |-> role, cluster_spec |-> parent,
                join_token_secret |-> "test-cluster-join-token",
                control_plane_nodes |-> << "cp-01" >>, worker_nodes |-> << "w-01" >>,
                machines_info |->
                  [ x \in TopologyNames |->
                      [ present |-> TRUE, hostname |-> x, ipAddress |-> "" ] ] ]

\* create_nixos_configuration_for_machine (lines 217-293).
ApplyCreate ==
  /\ call.fn = "create" /\ result = << >>
  /\ LET cluster_config ==
           generate_cluster_config(call.cluster_name, call.control_plane_nodes,
                                   call.worker_nodes, call.machines_info)
         child_spec ==
           nixos_config_spec(call.machine_name, call.machine, call.cluster_spec,
                             cluster_config, call.join_token_secret)
     IN  result' = [ child |-> create_nixos_configuration_with_owner(
                                 config_name(call.cluster_name, call.machine_name),
                                 child_spec, call.cluster_name, call.cluster_uid,
                                 call.role),
                     checked |-> FALSE, spec_updates |-> << >>, patched |-> FALSE ]
  /\ UNCHANGED << spec, uid, deletionTimestamp, machines, children, secrets,
                  status, trace, outcome, envSteps, cpEverReady, call, loop >>

\* The next reconcile of the same parent spec finds the child and takes the
\* existing-child branch (lines 353-393).
ApplyRecheck ==
  /\ call.fn = "create" /\ result # << >> /\ ~result.checked
  /\ LET updates == spec_updates(call.cluster_spec, result.child.spec)
     IN  result' = [ result EXCEPT !.checked = TRUE, !.spec_updates = updates,
                                   !.patched = (updates # << >>) ]
  /\ UNCHANGED << spec, uid, deletionTimestamp, machines, children, secrets,
                  status, trace, outcome, envSteps, cpEverReady, call, loop >>

NextChild ==
  \/ ApplyCreate
  \/ ApplyRecheck

SpecChild == InitChild /\ [][NextChild]_vars

\* --------------------------------------- the harvester as a function
\* Lines 566-572.
kubeconfig_paths ==
  << "/etc/rancher/k3s/k3s.yaml", "/var/lib/k0s/pki/admin.conf",
     "/etc/kubernetes/admin.conf", "/root/.kube/config",
     "/etc/kubernetes/kubeconfig" >>

\* The remote commands of lines 619 and 642, in the order of the code.
HarvestCommands ==
  [ i \in DOMAIN kubeconfig_paths |-> "cat " \o kubeconfig_paths[i] ]
    \o << "kubectl config view --raw" >>

\* How one subprocess.run of an ssh command can end: the timeout expires,
\* ssh exits non-zero without or with output, or it exits 0 with no output,
\* with white space only, or with a document.
RunOutcomes == {"timeout", "refused", "refused-with-output", "empty", "blank", "content"}

\* subprocess.run(cmd, capture_output=True, text=True, timeout=10): raised
\* stands for subprocess.TimeoutExpired, else the CompletedProcess.
subprocess_run(cmd, how) ==
  [ raised |-> how = "timeout",
    returncode |-> IF how \in {"refused", "refused-with-output"} THEN 255 ELSE 0,
    stdout |-> CASE how \in {"content", "refused-with-output"} -> "output of " \o cmd
                 [] how = "blank" -> "\n"
                 [] OTHER -> "" ]

\* str.strip() on the outputs drawn: white space only becomes "".
strip(s) == IF s \in {"", "\n"} THEN "" ELSE s

\* Lines 627 and 650: `result.returncode == 0 and result.stdout.strip()`.
attempt_wins(r) == ~r.raised /\ r.returncode = 0 /\ strip(r.stdout) # ""

\* Every path is read; the last one that yields a document is kept.
RECURSIVE try_every_path(_, _, _)
try_every_path(i, outcomes, acc) ==
  IF i > Len(kubeconfig_paths) THEN acc
  ELSE LET r == subprocess_run(HarvestCommands[i], outcomes[i])
       IN  try_every_path(i + 1, outcomes,
             [ tried |-> Append(acc.tried, HarvestCommands[i]),
               kubeconfig_content |-> IF attempt_wins(r) THEN r.stdout
                                      ELSE acc.kubeconfig_content ])

\* The loop of lines 617-637 from path i on: acc = [tried, kubeconfig_content].
RECURSIVE try_paths(_, _, _)
try_paths(i, outcomes, acc) ==
  IF i > Len(kubeconfig_paths) THEN acc
  ELSE LET r == subprocess_run(HarvestCommands[i], outcomes[i])
           tried == Append(acc.tried, HarvestCommands[i])
       IN  IF attempt_wins(r)
           THEN [ tried |-> tried, kubeconfig_content |-> r.stdout ]
           ELSE try_paths(i + 1, outcomes, [ acc EXCEPT !.tried = tried ])

\* Lines 640-655: kubectl is asked when no path gave a document.
try_kubectl(outcomes, acc) ==
  IF acc.kubeconfig_content # None THEN acc
  ELSE LET k == Len(HarvestCommands)
           r == subprocess_run(HarvestCommands[k], outcomes[k])
       IN  [ tried |-> Append(acc.tried, HarvestCommands[k]),
             kubeconfig_content |-> IF attempt_wins(r) THEN r.stdout ELSE None ]

\* Lines 665-681: yaml.dump(yaml.safe_load(content)), the document written
\* out again.
yaml_dump_of(content) == "yaml of " \o content

\* A Machine as the harvester sees it: whether get_machine returns it, its
\* spec.hostname and spec.ipAddress (None for an absent key) and whether it
\* has no sshKeySecretRef, one whose Secret is read, or one whose Secret
\* cannot be read.
HarvestMachines ==
  [ fetched : BOOLEAN, hostname : {None, "", "cp.local"},
    ipAddress : {None, "", "10.0.0.1"}, sshKey : {"none", "read", "unreadable"} ]

NothingHarvested == [ host |-> None, tried |-> << >>, kubeconfig |-> None ]

\* extract_kubeconfig_from_control_plane (lines 551-688) with its SSH
\* session: the host addressed, the commands run and the value returned.
extract_kubeconfig_via_ssh(control_plane_nodes, pool, outcomes) ==
  IF control_plane_nodes = << >> THEN NothingHarvested
  ELSE
    LET first_cp == control_plane_nodes[1]
        machine == pool[first_cp]
        hostname == IF Truthy(machine.hostname) THEN machine.hostname
                    ELSE machine.ipAddress
        found == try_kubectl(outcomes,
                   try_paths(1, outcomes, [ tried |-> << >>,
                                            kubeconfig_content |-> None ]))
    IN  IF ~machine.fetched \/ ~Truthy(hostname) \/ machine.sshKey = "unreadable"
        THEN NothingHarvested
        ELSE [ host |-> hostname, tried |-> found.tried,
               kubeconfig |-> IF found.kubeconfig_content = None THEN None
                              ELSE yaml_dump_of(found.kubeconfig_content) ]

\* A Machine the harvester can reach.
ReachableMachine ==
  [ fetched |-> TRUE, hostname |-> "cp.local", ipAddress |-> "10.0.0.1",
    sshKey |-> "read" ]

\* The harvests studied: every way the six commands can end on a reachable
\* Machine, and every pair of Machines under two fixed ways.
InitHarvest ==
  /\ Idle
  /\ result = << >>
  /\ \/ \E outcomes \in [ DOMAIN HarvestCommands -> RunOutcomes ] :
          call = [ fn |-> "harvest", control_plane_nodes |-> << "cp-01" >>,
                   pool |-> [ n \in TopologyNames |-> ReachableMachine ],
                   outcomes |-> outcomes ]
     \/ \E nodes \in DistinctSeqs(TopologyNames, MaxSel),
           pool \in [ TopologyNames -> HarvestMachines ],
           how \in {"content", "timeout"} :
          call = [ fn |-> "harvest", control_plane_nodes |-> nodes, pool |-> pool,
                   outcomes |-> [ i \in DOMAIN HarvestCommands |-> how ] ]

ApplyHarvest ==
  /\ call.fn = "harvest" /\ result = << >>
  /\ result' = [ harvested |-> extract_kubeconfig_via_ssh(
                                 call.control_plane_nodes, call.pool, call.outcomes) ]
  /\ UNCHANGED << spec, uid, deletionTimestamp, machines, children, secrets,
                  status, trace, outcome, envSteps, cpEverReady, call, loop >>

NextHarvest == ApplyHarvest

SpecHarvest == InitHarvest /\ [][NextHarvest]_vars

\* ------------------------------------- two clusters in one namespace
ClusterNames == {"a", "b"}

\* Specs that select afresh: no explicit list for either role.
FreshSpecs ==
  { s \in ClusterSpecs :
      /\ s.controlPlane \in { BySelector("r=cp", 1), BySelector("r=cp", 2) }
      /\ s.dataPlane \in { NoRole, BySelector("r=w", 1) }
      /\ s.ref = None }

\* Both clusters are new and the Machines of the namespace are free.
InitClusters ==
  /\ Idle
  /\ call \in [ fn : {"clusters"}, specs : [ ClusterNames -> FreshSpecs ] ]
  /\ result = [ pool |-> InitialPool,
                clusters |-> [ c \in ClusterNames |->
                                 [ status |-> EmptyStatus, children |-> {} ] ] ]

\* One reconcile of cluster c without API failure (lines 316-490): select
\* for both roles from the Machines as they are now, give up on an empty
\* control plane, else ensure the children <c>-<machine> and persist the
\* selection.
ReconcileCluster(c) ==
  /\ call.fn = "clusters"
  /\ \E descending \in BOOLEAN :
       LET current_status == result.clusters[c].status
           listing == list_machines(result.pool, descending, NoFault)
           control_plane_nodes ==
             select_machines_for_cluster(call.specs[c].controlPlane, "controlPlane",
                                         current_status, listing).selected
           worker_nodes ==
             select_machines_for_cluster(call.specs[c].dataPlane, "dataPlane",
                                         current_status, listing).selected
           ensured == Range(control_plane_nodes \o worker_nodes)
           applied_configs == [ m \in ensured |-> m ]
       IN  IF selection_rejected(control_plane_nodes, worker_nodes)
           THEN UNCHANGED result
           ELSE result' =
                  [ result EXCEPT
                      ![ "clusters" ][c] =
                        [ status |-> update_cluster_status(
                                       current_status,
                                       reconcile_status(control_plane_nodes,
                                                        worker_nodes, applied_configs)),
                          children |-> @.children \cup ensured ] ]
  /\ UNCHANGED << spec, uid, deletionTimestamp, machines, children, secrets,
                  status, trace, outcome, envSteps, cpEverReady, call, loop >>

\* The configuration operator has applied a child of some cluster to its
\* Machine, which now reports hasConfiguration.
MachineConfigured ==
  /\ call.fn = "clusters"
  /\ \E m \in Machines :
       /\ \E c \in ClusterNames : m \in result.clusters[c].children
       /\ result.pool[m].hasConfiguration = "False"
       /\ result' = [ result EXCEPT ![ "pool" ][m].hasConfiguration = "True" ]
  /\ UNCHANGED << spec, uid, deletionTimestamp, machines, children, secrets,
                  status, trace, outcome, envSteps, cpEverReady, call, loop >>

NextClusters ==
  \/ \E c \in ClusterNames : ReconcileCluster(c)
  \/ MachineConfigured

SpecClusters == InitClusters /\ [][NextClusters]_vars

\* ------------------------------------------------- claims about selection
Selected == call.fn = "select" /\ result # << >>

\* The persisted selection of the role the call asks for.
PersistedOfRole ==
  IF call.role = "controlPlane" THEN call.selectedControlPlaneMachines
  ELSE call.selectedDataPlaneMachines

\* C1: with no non-empty explicit list and a non-empty persisted selection S
\* for the role, select_machines_for_cluster returns S verbatim, whatever
\* the pool, matchLabels and count are, and does not call list_machines.
C1_SelectionStability ==
  (Selected /\ call.roleSpec.machines = << >> /\ PersistedOfRole # << >>)
    => (result.selected = PersistedOfRole /\ ~result.listed)

\* The persisted control-plane machine is no longer in the pool, another
\* matching free machine is, and the persisted one is still returned (S2).
C1_Witness ==
  /\ Selected
  /\ call.role = "controlPlane"
  /\ call.roleSpec = [ machines |-> << >>, matchLabels |-> {"r=cp"}, count |-> 1 ]
  /\ call.selectedControlPlaneMachines = << 2 >>
  /\ call.pool[1].exists /\ ~call.pool[2].exists
  /\ result.selected = << 2 >>

\* C3: a non-empty explicit list L is returned verbatim, regardless of the
\* persisted selection, of matchLabels and count, and of the pool.
C3_ExplicitListPriority ==
  (Selected /\ call.roleSpec.machines # << >>)
    => (result.selected = call.roleSpec.machines /\ ~result.listed)

\* An explicit list wins over a different persisted selection and a selector.
C3_Witness ==
  /\ Selected
  /\ call.roleSpec.machines = << 3, 1 >>
  /\ call.roleSpec.count = 2 /\ call.roleSpec.matchLabels = {"r=cp"}
  /\ PersistedOfRole = << 2 >>
  /\ result.selected = << 3, 1 >>

\* ----------------------------------------------------- claims about drift
Drifted == call.fn = "drift" /\ result # << >>

\* The value of a drift field as parent and child are compared on it: an
\* absent configurationSubdir stands for "".
Compared(k, v) == IF k = "configurationSubdir" /\ v = None THEN "" ELSE v

Differing ==
  { k \in DriftFields : Compared(k, call.parent[k]) # Compared(k, call.existing[k]) }

\* C5: the merge patch of an existing child has as keys exactly those of
\* gitRepo, ref, configurationSubdir, credentialsRef whose parent value
\* differs from the child's; a ref or credentialsRef removed on the parent is
\* sent as null; nothing is patched when none differs; the write-once fields
\* are never in a patch and are left as they were.
C5_DriftRepairScope ==
  Drifted =>
    /\ DOMAIN result.spec_updates = Differing
    /\ \A k \in DOMAIN result.spec_updates :
         result.spec_updates[k] = Compared(k, call.parent[k])
    /\ result.patched = (Differing # {})
    /\ \A k \in DOMAIN WriteOnce(1) : result.child[k] = call.existing[k]
    /\ \A k \in DriftFields :
         Compared(k, result.child[k]) = Compared(k, call.parent[k])

\* S3: the child has ref "v1", the parent has no ref, nothing else differs:
\* the patch is {"spec": {"ref": null}} and the ref is gone afterwards.
C5_Witness ==
  /\ Drifted
  /\ call.existing.ref = "v1" /\ call.parent.ref = None
  /\ Differing = {"ref"}
  /\ result.patched
  /\ result.spec_updates = [ k \in {"ref"} |-> None ]
  /\ result.child.ref = None

\* ------------------------------------------- claims about the reconciler
\* The step is a run of the reconciler that ended in success.
ReconcileSucceeds == outcome'.handler = "reconcile" /\ outcome'.kind = "success"

FirstControlPlane(st) == Head(st.selectedControlPlaneMachines)

\* C2 as stated: once selectedControlPlaneMachines is non-empty, every later
\* successful reconcile writes a list with the same first element, as long
\* as a Machine of that name exists, whatever was changed in between.
C2_FirstStableWhateverTheSpec ==
  [][ ( /\ status.selectedControlPlaneMachines # << >>
        /\ machines[FirstControlPlane(status)].exists
        /\ ReconcileSucceeds )
      => ( /\ status'.selectedControlPlaneMachines # << >>
           /\ FirstControlPlane(status') = FirstControlPlane(status) ) ]_vars

\* C2: once selectedControlPlaneMachines is non-empty, every later successful
\* reconcile writes a list with the same first element, whatever happened to
\* the pool in between, provided spec.controlPlane.machines is empty or
\* starts with that same name.
C2_FirstControlPlaneStable ==
  [][ ( /\ status.selectedControlPlaneMachines # << >>
        /\ ReconcileSucceeds
        /\ \/ spec.controlPlane.machines = << >>
           \/ Head(spec.controlPlane.machines) = FirstControlPlane(status) )
      => ( /\ status'.selectedControlPlaneMachines # << >>
           /\ FirstControlPlane(status') = FirstControlPlane(status) ) ]_vars

\* Machine 1 was selected while free, is configured by now, machine 2 is
\* free and matches, and a reconcile has just kept machine 1.
C2_Witness ==
  /\ outcome.handler = "reconcile" /\ outcome.kind = "success"
  /\ spec.controlPlane = BySelector("r=cp", 1)
  /\ status.selectedControlPlaneMachines = << 1 >>
  /\ machines[1].hasConfiguration = "True"
  /\ machines[2].exists /\ machines[2].hasConfiguration = "False"
  /\ envSteps > 0

ChildWrites == {"create_child", "patch_child"}

\* C4 as stated: a reconcile run right after a successful one, on the same
\* state, leaves children and status as they are and issues no create and
\* no patch on a child.
C4_ReconcileIdempotent ==
  [][ ( /\ outcome.handler = "reconcile" /\ outcome.kind = "success"
        /\ outcome.fault = NoFault
        /\ outcome'.handler = "reconcile" /\ outcome'.fault = NoFault )
      => ( /\ children' = children
           /\ status' = status
           /\ \A i \in DOMAIN trace' : trace'[i].op \notin ChildWrites ) ]_vars

\* ---------------------------------------------- claims about the monitor
MonitorWrote == outcome.handler = "monitor" /\ outcome.kind = "written"

\* The phase function of P8 on the written counters.
PhaseOfCounters(cp, dp) ==
  LET cp_ready == cp[1]
      cp_total == cp[2]
      dp_ready == dp[1]
      dp_total == dp[2]
      Ready == cp_ready = cp_total /\ cp_total > 0
                 /\ (dp_total = 0 \/ dp_ready = dp_total)
  IN  IF Ready THEN "Ready"
      ELSE IF cp_ready = cp_total /\ cp_total > 0 THEN "ControlPlaneReady"
      ELSE "Provisioning"

\* C6: the phase a monitor tick writes is Ready iff cp_ready = cp_total > 0
\* and (dp_total = 0 or dp_ready = dp_total), ControlPlaneReady iff
\* cp_ready = cp_total > 0 and not Ready, Provisioning otherwise, where the
\* counters are those the tick writes.
C6_PhaseDerivation ==
  MonitorWrote =>
    status.phase = PhaseOfCounters(status.controlPlaneReady, status.dataPlaneReady)

\* S5: two ready control-plane nodes and one worker whose child has no
\* appliedCommit.
C6_Witness ==
  /\ MonitorWrote
  /\ status.controlPlaneReady = << 2, 2 >>
  /\ status.dataPlaneReady = << 0, 1 >>
  /\ status.phase = "ControlPlaneReady"
  /\ children[MaxMachines].exists /\ children[MaxMachines].appliedCommit = None

\* C7 as stated: in a tick that writes status, a control-plane child whose
\* Machine cannot be fetched counts as not ready, so the phase written is
\* neither ControlPlaneReady nor Ready.
C7_UnfetchedCountsAsNotReady ==
  [][ ( /\ outcome'.handler = "monitor" /\ outcome'.kind = "written"
        /\ \E m \in DOMAIN status.appliedMachines :
             /\ children[m].exists /\ children[m].role = "control-plane"
             /\ \/ ~machines[m].exists
                \/ outcome'.fault = [ op |-> "get_machine", m |-> m ] )
      => status'.phase \notin {"ControlPlaneReady", "Ready"} ]_vars

\* C8 as stated: when the phase and counters in the status are the
\* monitor's, a successful reconcile that leaves children and machines as
\* they are does not change them.
C8_ReconcileKeepsMonitorFields ==
  [][ ( /\ status.conditions # << >> /\ status.conditions[1].type = "Ready"
        /\ ReconcileSucceeds
        /\ children' = children /\ machines' = machines )
      => ( /\ status'.phase = status.phase
           /\ status'.controlPlaneReady = status.controlPlaneReady
           /\ status'.dataPlaneReady = status.dataPlaneReady ) ]_vars

\* C9 as stated: status.kubeconfigSecret is set only when some control-plane
\* node of the cluster has been ready.
C9_SetOnlyAfterControlPlaneReady ==
  status.kubeconfigSecret # None => cpEverReady

\* C9: status.kubeconfigSecret is set exactly when the status records
\* children, that is from the first successful reconcile on, and then it is
\* the name of the cluster's kubeconfig Secret, whether or not a
\* control-plane node has been ready.
C9_KubeconfigSecretField ==
  /\ (status.kubeconfigSecret # None) <=> (status.appliedMachines # << >>)
  /\ status.kubeconfigSecret \in {None, "kubeconfig"}
  /\ status.kubeconfigSecret # None => status.selectedControlPlaneMachines # << >>

\* The field is set while no control-plane node has been ready and the
\* Secret does not exist.
C9_Witness ==
  /\ status.kubeconfigSecret = "kubeconfig"
  /\ ~cpEverReady
  /\ "kubeconfig" \notin secrets

\* C10: the kubeconfig Secret comes into existence only in a state where
\* some control-plane child has a non-empty appliedCommit and its Machine
\* has hasConfiguration=true.
C10_KubeconfigPrecondition ==
  [][ ("kubeconfig" \notin secrets /\ "kubeconfig" \in secrets')
      => SomeControlPlaneReady(children, machines) ]_vars

\* A monitor tick has just created the Secret.
C10_Witness ==
  /\ outcome.handler = "monitor"
  /\ \E i \in DOMAIN trace : trace[i] = Call("create_secret", 0, "kubeconfig")
  /\ "kubeconfig" \in secrets
  /\ status.phase = "Ready"

\* ------------------------------------------------ claims about the status
\* The child name "<cluster>-<machine>" of a machine.
ChildName(m) == m

\* C11: whenever a successful reconcile has completed, every machine of
\* status.selectedControlPlaneMachines and of status.selectedDataPlaneMachines
\* is a key of status.appliedMachines, mapped to the name of its child.
C11_AppliedCoversSelected ==
  LET selectedNames == Range(status.selectedControlPlaneMachines)
                         \cup Range(status.selectedDataPlaneMachines)
  IN  /\ selectedNames \subseteq DOMAIN status.appliedMachines
      /\ \A m \in DOMAIN status.appliedMachines :
           status.appliedMachines[m] = ChildName(m)

\* A reconcile has just succeeded with a control-plane node and a worker
\* selected, one of whose children was left by an earlier run that failed
\* before it wrote status.
C11_Witness ==
  /\ outcome.handler = "reconcile" /\ outcome.kind = "success"
  /\ status.selectedControlPlaneMachines = << 1 >>
  /\ status.selectedDataPlaneMachines = << MaxMachines >>
  /\ DOMAIN status.appliedMachines = {1, MaxMachines}
  /\ \E i \in DOMAIN trace : trace[i].op = "create_child" /\ trace[i].m = MaxMachines
  /\ \A i \in DOMAIN trace : ~(trace[i].op = "create_child" /\ trace[i].m = 1)

\* ---------------------------------------------- claims about the children
\* C12: every child that exists carries exactly one owner reference, with
\* controller=true and blockOwnerDeletion=true, naming the parent cluster
\* and its uid.
C12_OwnerWiring ==
  \A m \in Machines :
    children[m].exists =>
      /\ Len(children[m].ownerReferences) = 1
      /\ children[m].ownerReferences[1].controller
      /\ children[m].ownerReferences[1].blockOwnerDeletion
      /\ children[m].ownerReferences[1].kind = "KubernetesCluster"
      /\ children[m].ownerReferences[1].name = ClusterName
      /\ children[m].ownerReferences[1].uid = uid
      /\ uid # None

\* A child created by one reconcile has been patched by a later one and
\* has been applied since.
C12_Witness ==
  /\ \E m \in Machines :
       /\ children[m].exists /\ children[m].appliedCommit # None
       /\ Len(children[m].ownerReferences) = 1
       /\ \E i \in DOMAIN trace : trace[i].op = "patch_child" /\ trace[i].m = m

\* ----------------------------------------------- claims about deletion
\* The step is a run of the deletion handler.
DeletionRuns == outcome'.handler = "deletion"

\* The positions in a trace of the delete requests for child c and for the
\* Secret called name.
DeletesOfChild(tr, c) ==
  { i \in DOMAIN tr : tr[i] = Call("delete_child", c, << >>) }
DeletesOfSecret(tr, name) ==
  { i \in DOMAIN tr : tr[i] = Call("delete_secret", 0, name) }

\* C13 as stated: when a cluster with a deletion timestamp is reconciled,
\* every child the core has created for it, also by a reconcile that failed
\* before it wrote status, receives a delete request, and so do the two
\* Secrets.
C13_EveryChildDeleted ==
  [][ DeletionRuns
      => ( /\ \A m \in Machines :
                children[m].exists => DeletesOfChild(trace', ChildName(m)) # {}
           /\ DeletesOfSecret(trace', "join-token") # {}
           /\ DeletesOfSecret(trace', "kubeconfig") # {} ) ]_vars

\* C14: the deletion handler issues a delete for every child named in
\* status.appliedMachines, then one for the join-token Secret, then one for
\* the kubeconfig Secret, whichever of them fails, and completes without
\* raising; every delete that did not fail has removed its object.
C14_BestEffortDeletion ==
  [][ DeletionRuns
      => LET applied == DOMAIN status.appliedMachines
             n == Cardinality(applied)
         IN  /\ outcome'.kind = "deleted"
             /\ Len(trace') = n + 2
             /\ \A m \in applied :
                  /\ \E i \in 1..n : trace'[i] = Call("delete_child", status.appliedMachines[m], << >>)
                  /\ outcome'.fault # [ op |-> "delete_child", m |-> m ]
                       => ~children'[status.appliedMachines[m]].exists
             /\ trace'[n + 1] = Call("delete_secret", 0, "join-token")
             /\ trace'[n + 2] = Call("delete_secret", 0, "kubeconfig")
             /\ outcome'.fault.op # "delete_join-token" => "join-token" \notin secrets'
             /\ outcome'.fault.op # "delete_kubeconfig" => "kubeconfig" \notin secrets' ]_vars

\* S6: two children are named in appliedMachines; the delete of one failed,
\* the other child and the join-token Secret are gone.
C14_Witness ==
  /\ outcome.handler = "deletion" /\ outcome.kind = "deleted"
  /\ DOMAIN status.appliedMachines = {1, 2}
  /\ outcome.fault = [ op |-> "delete_child", m |-> 1 ]
  /\ children[1].exists /\ ~children[2].exists
  /\ DeletesOfChild(trace, ChildName(2)) # {}
  /\ secrets = {}

\* ------------------------------------- claims about failing reconciles
ReconcileRuns == outcome'.handler = "reconcile"

\* The run issued no write and changed nothing.
NothingWritten ==
  /\ children' = children /\ secrets' = secrets /\ status' = status
  /\ \A i \in DOMAIN trace' :
       trace'[i].op \notin {"create_secret", "create_child", "patch_child",
                            "patch_status"}

\* Machine m matches the selector of roleSpec and is available.
Candidate(m, roleSpec) ==
  /\ machines[m].exists
  /\ roleSpec.matchLabels \subseteq machines[m].labels
  /\ machines[m].hasConfiguration = "False"

\* The control-plane selection of the run comes out empty: there is no
\* explicit list and no persisted selection, and count is 0, or no Machine
\* is a candidate, or the listing fails.
NoControlPlaneSelected ==
  /\ spec.controlPlane.machines = << >>
  /\ status.selectedControlPlaneMachines = << >>
  /\ \/ spec.controlPlane.count = 0
     \/ \A m \in Machines : ~Candidate(m, spec.controlPlane)
     \/ outcome'.fault.op = "list_machines"

\* C15: a reconcile whose control-plane selection is empty fails with a
\* transient error asking for a retry after 60 s, creates no child and no
\* Secret and writes no status; a reconcile fails that way only then, so
\* not for an empty worker list alone.
C15_EmptyControlPlane ==
  [][ ReconcileRuns
      => /\ (outcome'.kind = "temporary") <=> NoControlPlaneSelected
         /\ NoControlPlaneSelected
              => (outcome'.delay = 60 /\ NothingWritten) ]_vars

\* S4: a selector for one control-plane node finds no candidate although
\* Machines exist; nothing was created and no status was written.
C15_Witness ==
  /\ outcome.handler = "reconcile" /\ outcome.kind = "temporary"
  /\ outcome.fault = NoFault
  /\ spec.controlPlane = BySelector("r=cp", 1)
  /\ \E m \in Machines : machines[m].exists
  /\ \A m \in Machines : ~children[m].exists
  /\ secrets = {}
  /\ status = EmptyStatus

\* ------------------------------------- claims about the order of a run
\* The stage of a reconcile an API call belongs to: selection, join-token
\* Secret, machine information, child ensure, status write.
StageOf(op) ==
  CASE op = "list_machines" -> 1
    [] op \in {"read_secret", "create_secret"} -> 2
    [] op = "get_machine" -> 3
    [] op \in {"get_child", "create_child", "patch_child"} -> 4
    [] op = "patch_status" -> 5

ChildEnsureOps == {"get_child", "create_child", "patch_child"}

\* The call the injected failure hit was issued by the run.
FailureHit(tr, fault) ==
  /\ fault # NoFault
  /\ \E i \in DOMAIN tr : tr[i].op = fault.op /\ tr[i].m = fault.m

\* C16: the calls of one reconcile are issued stage by stage: selection,
\* join-token Secret, child get/create/patch, status patch. A child is
\* created only after the join-token Secret was read and, where missing,
\* created; there is at most one status patch, it is the last call and
\* follows an ensure of every selected machine; a run in which a call of a
\* child ensure fails issues no status patch and leaves status as it was.
C16_ReconcileOrdering ==
  [][ ReconcileRuns
      => LET tr == trace'
             n == Len(tr)
         IN  /\ \A i, j \in 1..n : i < j => StageOf(tr[i].op) <= StageOf(tr[j].op)
             /\ \A i \in 1..n :
                  tr[i].op = "create_child"
                    => /\ \E j \in 1..(i - 1) : tr[j].op = "read_secret"
                       /\ \/ "join-token" \in secrets
                          \/ \E j \in 1..(i - 1) : tr[j].op = "create_secret"
                       /\ "join-token" \in secrets'
             /\ \A i \in 1..n : tr[i].op = "patch_status" => i = n
             /\ status' # status => (n > 0 /\ tr[n].op = "patch_status")
             /\ outcome'.kind = "success"
                  => \A m \in Range(status'.selectedControlPlaneMachines
                                    \o status'.selectedDataPlaneMachines) :
                       \E i \in 1..(n - 1) : tr[i].op = "get_child" /\ tr[i].m = m
             /\ (outcome'.fault.op \in ChildEnsureOps /\ FailureHit(tr, outcome'.fault))
                  => /\ status' = status
                     /\ \A i \in 1..n : tr[i].op # "patch_status" ]_vars

\* The creation of the second child failed after the join-token Secret and
\* the first child were created: no status was written.
C16_Witness ==
  /\ outcome.handler = "reconcile" /\ outcome.kind = "unknown"
  /\ outcome.fault.op = "create_child"
  /\ \E m \in Machines : children[m].exists
  /\ \E m \in Machines : ~children[m].exists /\ outcome.fault.m = m
  /\ "join-token" \in secrets
  /\ status = EmptyStatus
  /\ trace[Len(trace)].op = "create_child"

\* ------------------------------------------- claims about fresh selection
\* The call selects afresh: no explicit list, no persisted selection.
FreshCall ==
  Selected /\ call.roleSpec.machines = << >> /\ PersistedOfRole = << >>

\* The Machines of the pool that carry every matchLabels pair.
Matching ==
  { m \in Machines : /\ call.pool[m].exists
                     /\ call.roleSpec.matchLabels \subseteq call.pool[m].labels }

\* Those of them that are available.
Available == { m \in Matching : call.pool[m].hasConfiguration = "False" }

\* C17: a fresh selection returns the first count names, in ascending name
\* order, of the available matching Machines (none when count is 0); the
\* result is fixed by matchLabels, count and pool, in whichever order
\* list_machines returns the pool.
C17_FreshSelectionDeterministic ==
  FreshCall
    => LET s == result.selected
           n == IF call.roleSpec.count < Cardinality(Available)
                THEN call.roleSpec.count ELSE Cardinality(Available)
       IN  /\ Len(s) = n
           /\ Range(s) \subseteq Available
           /\ \A i, j \in 1..Len(s) : i < j => s[i] < s[j]
           /\ \A m \in Available \ Range(s) : \A i \in 1..Len(s) : s[i] < m
           /\ call.roleSpec.count = 0 => s = << >>

\* Machine 1 does not match, 2 and 3 do and are free: count 1 gives [2].
C17_Witness ==
  /\ FreshCall
  /\ call.roleSpec.matchLabels = {"r=cp"} /\ call.roleSpec.count = 1
  /\ call.pool[1].exists /\ call.pool[1].labels = {"r=w"}
  /\ Available = {2, 3}
  /\ result.selected = << 2 >>

\* C18: a fresh selection returns no Machine whose hasConfiguration is true
\* or absent; when no matching Machine is available it returns nothing.
C18_UnavailableExcluded ==
  FreshCall
    => /\ \A m \in Range(result.selected) :
            /\ call.pool[m].exists
            /\ call.pool[m].hasConfiguration \notin {"True", None}
       /\ Available = {} => result.selected = << >>

\* Of three matching Machines one is configured, one has no hasConfiguration
\* and one is free: asked for two, the selection returns the free one only.
C18_Witness ==
  /\ FreshCall
  /\ call.roleSpec.matchLabels = {"r=cp"} /\ call.roleSpec.count = 2
  /\ Matching = {1, 2, 3}
  /\ call.pool[1].hasConfiguration = "True"
  /\ call.pool[2].hasConfiguration = None
  /\ call.pool[3].hasConfiguration = "False"
  /\ result.selected = << 3 >>

\* ------------------------------------------- claims about a missing uid
\* C19: a reconcile of a cluster without deletion timestamp and without
\* metadata.uid ends with a permanent error, for which no retry is asked,
\* and has issued no API call: no listing for a selection, no Secret read or
\* creation, no child creation or patch, no status write.
C19_MissingUidIsPermanent ==
  [][ (ReconcileRuns /\ uid \in {None, ""})
      => /\ outcome'.kind = "permanent" /\ outcome'.delay = 0
         /\ trace' = << >>
         /\ children' = children /\ secrets' = secrets /\ status' = status
    ]_vars

\* A cluster without uid whose selector would find a free Machine was
\* reconciled: permanent error, nothing created.
C19_Witness ==
  /\ uid = None
  /\ outcome.handler = "reconcile" /\ outcome.kind = "permanent"
  /\ spec.controlPlane = BySelector("r=cp", 1)
  /\ \E m \in Machines : /\ machines[m].exists
                         /\ "r=cp" \in machines[m].labels
                         /\ machines[m].hasConfiguration = "False"
  /\ \A m \in Machines : ~children[m].exists
  /\ secrets = {} /\ status = EmptyStatus

\* ---------------------------------------- claims about the event loop
\* Task h has issued its first call and not yet its last.
Between(h) ==
  /\ loop.tasks[h].pc >= 1
  /\ loop.tasks[h].pc < Len(loop.tasks[h].run.trace)

\* Task h issues a call in this step.
IssuesCall(h) == loop'.tasks[h].pc = loop.tasks[h].pc + 1

\* C20: a monitor tick and a reconcile of the same cluster never run
\* concurrently: neither issues a call while the other is between its first
\* and its last call.
C20_HandlersNeverInterleave ==
  [][ \A h \in Handlers :
        IssuesCall(h) => \A g \in Handlers \ {h} : ~Between(g) ]_vars

\* The timer is due while a reconcile is between its first and last call,
\* on a cluster whose appliedMachines is set: the tick waits on the loop.
C20_Witness ==
  /\ loop.running = "reconcile"
  /\ Between("reconcile")
  /\ loop.tasks["monitor"].state = "ready"
  /\ ~monitor_returns_early(status)

\* -------------------------------------- claims about the join-token Secret
\* Positions of the trace tr at which the Secret name is created.
CreatesOfSecret(tr, name) ==
  { i \in DOMAIN tr : tr[i].op = "create_secret" /\ tr[i].body = name }

\* Positions at which the Secret name is read.
ReadsOfSecret(tr, name) ==
  { i \in DOMAIN tr : tr[i].op = "read_secret" /\ tr[i].body = name }

\* C21: a reconcile creates the join-token Secret only after a read of it
\* that reported not found, and at most once; when the Secret exists no
\* creation is issued and the Secret stays; when the read fails otherwise
\* the run is aborted without a creation. No other handler creates it.
C21_JoinTokenCreatedOnce ==
  [][ LET made == CreatesOfSecret(trace', "join-token")
          read == ReadsOfSecret(trace', "join-token")
      IN  /\ made # {} => ReconcileRuns
          /\ ("join-token" \in secrets' /\ "join-token" \notin secrets)
               => made # {}
          /\ ReconcileRuns
               => /\ Cardinality(made) <= 1
                  /\ \A i \in made :
                       /\ "join-token" \notin secrets
                       /\ i > 1 /\ (i - 1) \in read
                       /\ ~Fails(outcome'.fault, "read_secret", 0)
                  /\ "join-token" \in secrets
                       => (made = {} /\ "join-token" \in secrets')
                  /\ (read # {} /\ Fails(outcome'.fault, "read_secret", 0))
                       => /\ made = {}
                          /\ outcome'.kind = "unknown"
                          /\ secrets' = secrets /\ children' = children
                          /\ status' = status ]_vars

\* A second successful reconcile found the Secret the first one created: it
\* read it and issued no creation.
C21_Witness ==
  /\ outcome.handler = "reconcile" /\ outcome.kind = "success"
  /\ "join-token" \in secrets
  /\ ReadsOfSecret(trace, "join-token") # {}
  /\ CreatesOfSecret(trace, "join-token") = {}

\* ------------------------------------------ claims about gateway failures
\* C22: a failure of an API call made by a reconcile reaches the handler as
\* an error: the run does not complete successfully; in particular a run
\* whose list_machines call failed writes no status, so it persists no
\* selection computed from the failed listing.
C22_GatewayFailuresPropagate ==
  [][ (ReconcileRuns /\ FailureHit(trace', outcome'.fault))
      => /\ outcome'.kind # "success"
         /\ outcome'.fault.op = "list_machines" => status' = status ]_vars

\* ------------------------------------- claims about the topology document
Rendered == call.fn = "topology" /\ result # << >>

\* The ip the document is to show for the node n: ipAddress if non-empty,
\* otherwise hostname if non-empty, otherwise "unknown".
ResolvedIp(n) ==
  LET m == call.machines[n]
  IN  IF m.ipAddress \notin {None, ""} THEN m.ipAddress
      ELSE IF m.hostname \notin {None, ""} THEN m.hostname
      ELSE "unknown"

NodeLine(n) ==
  "    { name = \"" \o n \o "\"; ip = \"" \o ResolvedIp(n) \o "\"; }"

\* The lines of the text between the one that opens the attribute key and
\* the closing bracket after it.
NodeLinesOf(text, key) ==
  LET open == CHOOSE i \in DOMAIN text : text[i] = "    " \o key \o " = ["
      close == CHOOSE j \in DOMAIN text :
                 /\ j > open /\ text[j] = "  ];"
                 /\ \A k \in (open + 1)..(j - 1) : text[k] # "  ];"
  IN  SubSeq(text, open + 1, close - 1)

NonEmptyLines(lines) == SelectSeq(lines, LAMBDA l : l # "")

\* C23: the document names the cluster and lists the control-plane nodes
\* and the workers in input order, each with its name and with the ip
\* ipAddress if non-empty, otherwise hostname if non-empty, otherwise
\* "unknown", also when the machine info is what the reconciler recorded;
\* no workers give an empty workers list.
C23_TopologyDocument ==
  Rendered
    => LET text == result.text
       IN  /\ \E i \in DOMAIN text : text[i] = "    name = \"test-cluster\";"
           /\ NonEmptyLines(NodeLinesOf(text, "controlPlane"))
                = [ i \in DOMAIN call.control_plane_nodes |->
                      NodeLine(call.control_plane_nodes[i]) ]
           /\ NonEmptyLines(NodeLinesOf(text, "workers"))
                = [ i \in DOMAIN call.worker_nodes |->
                      NodeLine(call.worker_nodes[i]) ]

\* ----------------------------------------------- claims about the metrics
\* C24: a second update_cluster_metrics with the same status leaves every
\* gauge (clusters by phase, ready and total per role) as the first left it.
C24_MetricUpdateIdempotent ==
  (call.fn = "metrics" /\ result.applied = 2)
    => result.registry = result.once

\* The string is of the form <int>/<int>: one "/", digits on both sides.
WellFormed(field) ==
  /\ field.kind = "str"
  /\ \E k \in DOMAIN field.chars :
       /\ field.chars[k] = "/"
       /\ k > 1 /\ k < Len(field.chars)
       /\ \A i \in DOMAIN field.chars \ {k} : field.chars[i] \in {"1", "2"}

\* What a role's gauges must be after the calls, given its status field.
NodeGaugesAsClaimed(gauge, before, field) ==
  LET f == IF field.kind = "absent" THEN Str(<< "0", "/", "0" >>) ELSE field
  IN  IF WellFormed(f)
      THEN LET k == CHOOSE i \in DOMAIN f.chars : f.chars[i] = "/"
           IN  /\ gauge.ready = int(SubSeq(f.chars, 1, k - 1))
               /\ gauge.total = int(SubSeq(f.chars, k + 1, Len(f.chars)))
      ELSE gauge = before

CreatesOfChild(tr, m) ==
  { i \in DOMAIN tr : tr[i].op = "create_child" /\ tr[i].m = m }

\* The last run was a reconcile that failed in a child ensure after it had
\* created a child.
StoppedAfterSomeChildren ==
  /\ outcome.handler = "reconcile" /\ outcome.kind = "unknown"
  /\ outcome.fault.op \in ChildEnsureOps
  /\ \E m \in Machines : CreatesOfChild(trace, m) # {} /\ children[m].exists

\* C26: a reconcile that fails in a child ensure after creating some
\* children writes no status; the reconcile retried right after it, with
\* nothing else changed and no failure, succeeds, creates no child that
\* exists, creates each missing child of a selected machine once, and leaves
\* every selected machine with its child.
C26_RetryAfterPartialFailure ==
  [][ /\ (ReconcileRuns /\ outcome'.fault.op \in ChildEnsureOps
            /\ FailureHit(trace', outcome'.fault))
        => status' = status
      /\ (StoppedAfterSomeChildren /\ ReconcileRuns /\ outcome'.fault = NoFault)
        => LET sel == Range(status'.selectedControlPlaneMachines
                            \o status'.selectedDataPlaneMachines)
           IN  /\ outcome'.kind = "success"
               /\ \A m \in Machines :
                    Cardinality(CreatesOfChild(trace', m))
                      = IF m \in sel /\ ~children[m].exists THEN 1 ELSE 0
               /\ \A m \in sel : children'[m].exists
               /\ \A m \in Machines \ sel : children'[m] = children[m] ]_vars

\* The retry after a run that had created the child of one of two selected
\* machines: it found that child and created the other. (The one event so
\* far is the failure; the selection is written for the first time.)
C26_Witness ==
  /\ outcome.handler = "reconcile" /\ outcome.kind = "success"
  /\ outcome.fault = NoFault
  /\ envSteps = 1
  /\ spec.controlPlane = BySelector("r=cp", 2)
  /\ \E m1, m2 \in Machines :
       /\ m1 # m2
       /\ status.selectedControlPlaneMachines = << m1, m2 >>
       /\ CreatesOfChild(trace, m1) = {}
       /\ CreatesOfChild(trace, m2) # {}
       /\ children[m1].exists /\ children[m2].exists

\* ------------------------------------- claims about what the monitor writes
MonitorRuns == outcome'.handler = "monitor"

\* Positions of the trace tr at which the harvester is invoked.
HarvestsIn(tr) == { i \in DOMAIN tr : tr[i].op = "harvest" }

MonitorOwned ==
  {"phase", "controlPlaneReady", "dataPlaneReady", "kubeconfigSecret", "conditions"}

\* C27: a monitor tick leaves appliedMachines and both selected lists of the
\* status as they are, and creates, patches and deletes no child; what it
\* writes is the cluster status (phase, counters, kubeconfigSecret,
\* conditions) and the kubeconfig Secret.
C27_MonitorFrame ==
  [][ MonitorRuns
      => /\ \A k \in DOMAIN status \ MonitorOwned : status'[k] = status[k]
         /\ children' = children
         /\ \A i \in DOMAIN trace' :
              trace'[i].op \notin {"create_child", "patch_child", "delete_child",
                                   "delete_secret"}
         /\ \A i \in DOMAIN trace' :
              trace'[i].op = "create_secret" => trace'[i].body = "kubeconfig"
         /\ secrets \subseteq secrets'
         /\ secrets' \ secrets \subseteq {"kubeconfig"} ]_vars

\* A tick wrote phase and counters and created the kubeconfig Secret on a
\* cluster with a control-plane node and a worker recorded.
C27_Witness ==
  /\ MonitorWrote
  /\ CreatesOfSecret(trace, "kubeconfig") # {}
  /\ "kubeconfig" \in secrets
  /\ status.selectedControlPlaneMachines # << >>
  /\ status.selectedDataPlaneMachines # << >>
  /\ Cardinality(DOMAIN status.appliedMachines) >= 2
  /\ status.phase = "ControlPlaneReady"

\* C28: a tick invokes the harvester, and creates the kubeconfig Secret,
\* only when the Secret does not exist and the control plane is fully ready
\* in that tick (the counters it writes are n/n with n > 0); when the Secret
\* exists a tick neither harvests nor creates it, and the Secret stays.
C28_HarvestGating ==
  [][ MonitorRuns
      => /\ (HarvestsIn(trace') # {} \/ CreatesOfSecret(trace', "kubeconfig") # {})
              => /\ "kubeconfig" \notin secrets
                 /\ HarvestsIn(trace') # {}
                 /\ Cardinality(CreatesOfSecret(trace', "kubeconfig")) <= 1
                 /\ outcome'.kind = "written"
                      => /\ status'.controlPlaneReady[1] = status'.controlPlaneReady[2]
                         /\ status'.controlPlaneReady[1] > 0
         /\ "kubeconfig" \in secrets
              => /\ HarvestsIn(trace') = {}
                 /\ CreatesOfSecret(trace', "kubeconfig") = {}
                 /\ "kubeconfig" \in secrets' ]_vars

\* A tick with the control plane ready found the Secret and did not harvest.
C28_Witness ==
  /\ MonitorWrote
  /\ "kubeconfig" \in secrets
  /\ status.controlPlaneReady = << 1, 1 >>
  /\ ReadsOfSecret(trace, "kubeconfig") # {}
  /\ HarvestsIn(trace) = {}
  /\ CreatesOfSecret(trace, "kubeconfig") = {}

\* The kubeconfig block of the tick did not yield a Secret: the read or the
\* creation failed, or the harvester returned nothing.
HarvestFailed(tr, fault) ==
  /\ ReadsOfSecret(tr, "kubeconfig") # {}
  /\ \/ Fails(fault, "read_secret", 0)
     \/ Fails(fault, "create_secret", 0) /\ CreatesOfSecret(tr, "kubeconfig") # {}
     \/ HarvestsIn(tr) # {} /\ CreatesOfSecret(tr, "kubeconfig") = {}

\* C29: a tick in which the control plane is fully ready and the harvester
\* returns nothing, or the read or the creation of the kubeconfig Secret
\* fails, still ends with the status patch; unless the patch itself is
\* refused, the status then carries the phase and the counters of that
\* tick: Ready or ControlPlaneReady.
C29_HarvestFailureNotFatal ==
  [][ (MonitorRuns /\ HarvestFailed(trace', outcome'.fault))
      => /\ trace'[Len(trace')].op = "patch_status"
         /\ "kubeconfig" \notin secrets' \ secrets
         /\ ~Fails(outcome'.fault, "patch_status", 0)
              => /\ outcome'.kind = "written"
                 /\ status'.phase \in {"Ready", "ControlPlaneReady"}
                 /\ status'.phase =
                      PhaseOfCounters(status'.controlPlaneReady,
                                      status'.dataPlaneReady) ]_vars

\* The creation of the Secret failed and the tick wrote Ready.
C29_Witness ==
  /\ MonitorWrote
  /\ outcome.fault.op = "create_secret"
  /\ CreatesOfSecret(trace, "kubeconfig") # {}
  /\ "kubeconfig" \notin secrets
  /\ status.phase = "Ready"

\* The calls of a reconcile whose failure reaches the handler as an
\* exception: list_machines answers a failure with an empty list.
RaisingOps ==
  {"read_secret", "create_secret", "get_machine", "get_child", "create_child",
   "patch_child", "patch_status"}

\* A call of the run failed with an exception that is neither of the two
\* kopf errors: the injected failure hit one of the raising calls, or a
\* selected Machine was fetched that no longer exists (404).
RaisedInReconcile(tr, fault) ==
  \/ FailureHit(tr, fault) /\ fault.op \in RaisingOps
  \/ \E i \in DOMAIN tr : tr[i].op = "get_machine" /\ ~machines[tr[i].m].exists

\* C30: a reconcile in which the fetch of a Machine, the get, create or
\* patch of a child, the read or the creation of the join-token Secret or
\* the status patch fails is counted under the error class unknown and
\* raised again as a transient error with a delay of 60 s; it does not
\* record success, leaves status as it was and issues no status patch
\* unless the patch is the call that failed. No run without such a failure
\* is counted as unknown.
C30_UnknownFailuresTransient ==
  [][ ReconcileRuns
      => /\ RaisedInReconcile(trace', outcome'.fault)
              => /\ outcome'.kind = "unknown"
                 /\ outcome'.kind # "success"
                 /\ outcome'.delay = 60
                 /\ status' = status
                 /\ trace'[Len(trace')].op # "patch_status"
                      \/ Fails(outcome'.fault, "patch_status", 0)
         /\ outcome'.kind = "unknown"
              => RaisedInReconcile(trace', outcome'.fault) ]_vars

\* The status patch of a reconcile failed after a child was created, and the
\* run was counted as unknown with a retry after 60 s.
C30_Witness ==
  /\ outcome.handler = "reconcile"
  /\ outcome.kind = "unknown"
  /\ outcome.delay = 60
  /\ outcome.fault.op = "patch_status"
  /\ \E m \in Machines : children[m].exists
  /\ status = EmptyStatus

\* ------------------------------------------- claims about a child's body
Created == call.fn = "create" /\ result # << >>

\* C31: the child created for a machine is named <cluster>-<machine>, has
\* flake "#<machine>", onRemoveFlake "#minimal" and machineRef.name the
\* machine; fullInstall is true exactly when the Machine does not carry the
\* fullInstallationApplied annotation, whatever the value of the annotation;
\* additionalFiles is cluster.nix, join-token and then machine-ssh-key, the
\* last only if the Machine declares sshKeySecretRef.
C31_ChildCreation ==
  Created =>
    LET child == result.child
        files == child.spec.additionalFiles
    IN  /\ child.name = call.cluster_name \o "-" \o call.machine_name
        /\ child.spec.flake = "#" \o call.machine_name
        /\ child.spec.onRemoveFlake = "#minimal"
        /\ child.spec.machineRef.name = call.machine_name
        /\ child.spec.fullInstall = (call.machine.fullInstallationApplied = None)
        /\ Len(files) \in {2, 3}
        /\ files[1].path = "cluster.nix" /\ files[2].path = "join-token"
        /\ Len(files) = 3
             => /\ files[3].path = "machine-ssh-key"
                /\ call.machine.sshKeySecretRef.declared
        /\ call.machine.sshKeySecretRef = [ declared |-> TRUE, name |-> "ssh-key" ]
             => Len(files) = 3 /\ files[3].secretRef = "ssh-key"

\* C34: a child just created from a parent spec shows no drift against the
\* same spec, whether ref and credentialsRef are absent, set or empty and
\* configurationSubdir absent or set: the update set the next reconcile
\* computes is empty and no patch is sent.
C34_CreationAgreesWithDriftCheck ==
  (Created /\ result.checked)
    => result.spec_updates = << >> /\ ~result.patched

\* ------------------------------------------- claims about the harvester
Harvested == call.fn = "harvest" /\ result # << >>

\* The harvester can open its session: the first node's Machine is fetched,
\* has a hostname or an ipAddress, and its SSH key, if any, is read.
SessionOpens ==
  /\ call.control_plane_nodes # << >>
  /\ LET machine == call.pool[call.control_plane_nodes[1]]
     IN  /\ machine.fetched /\ machine.sshKey # "unreadable"
         /\ machine.hostname \notin {None, ""} \/ machine.ipAddress \notin {None, ""}

\* The probing of the claim, with Wins the set of outcomes that count as
\* exit status 0 with output: the commands run are the paths in their fixed
\* order up to and including the first that wins, then kubectl exactly when
\* no path won; the result is empty exactly when no command run won, and it
\* is empty when the Machine has neither hostname nor ipAddress.
ProbesInOrder(Wins) ==
  LET h == result.harvested
      n == Len(h.tried)
      paths == Len(kubeconfig_paths)
      PathWinners == { i \in 1..paths : call.outcomes[i] \in Wins }
      first == IF PathWinners = {} THEN paths + 1
               ELSE CHOOSE i \in PathWinners : \A j \in PathWinners : i <= j
  IN  IF ~SessionOpens THEN h.tried = << >> /\ h.kubeconfig = None
      ELSE /\ n = first
           /\ \A i \in 1..n : h.tried[i] = HarvestCommands[i]
           /\ h.host = call.pool[call.control_plane_nodes[1]].hostname
                \/ /\ call.pool[call.control_plane_nodes[1]].hostname \in {None, ""}
                   /\ h.host = call.pool[call.control_plane_nodes[1]].ipAddress
           /\ (h.kubeconfig = None) = (call.outcomes[n] \notin Wins)

\* C32 as stated: the first attempt with exit status 0 and non-empty output
\* wins, whatever the output.
C32_FirstNonEmptyOutputWins == Harvested => ProbesInOrder({"blank", "content"})

\* C32: on the first node handed over, the harvester tries the five paths
\* in their fixed order; the first attempt with exit status 0 and an output
\* that is not only white space wins and no later path is tried; a timeout,
\* a non-zero exit or a blank output moves on; kubectl config view --raw is
\* tried only if every path failed; the result is empty if everything fails
\* or the Machine has neither hostname nor ipAddress.
C32_HarvesterProbing == Harvested => ProbesInOrder({"content"})

\* The first path timed out, the second exited non-zero, the third gave
\* white space, the fourth a document: four commands were run.
C32_Witness ==
  /\ Harvested
  /\ call.outcomes[1] = "timeout" /\ call.outcomes[2] = "refused-with-output"
  /\ call.outcomes[3] = "blank" /\ call.outcomes[4] = "content"
  /\ Len(result.harvested.tried) = 4
  /\ result.harvested.kubeconfig # None

\* ----------------------------------------- claims about phase recovery
\* The recorded machines of a role whose child and Machine can be read.
RecordedOfRole(role) ==
  { m \in DOMAIN status.appliedMachines :
      /\ children[status.appliedMachines[m]].exists
      /\ machines[m].exists
      /\ (children[status.appliedMachines[m]].role = "control-plane")
           = (role = "control-plane") }

\* The child of m reports a commit and its Machine reports its configuration.
ReadyNow(m) ==
  /\ children[status.appliedMachines[m]].appliedCommit \notin {None, ""}
  /\ machines[m].hasConfiguration = "True"

\* The counter of a role as the cluster stands.
TrueCounter(role) ==
  << Cardinality({ m \in RecordedOfRole(role) : ReadyNow(m) }),
     Cardinality(RecordedOfRole(role)) >>

\* Every recorded control-plane machine is ready, and there is one.
ControlPlaneAllReady ==
  /\ RecordedOfRole("control-plane") # {}
  /\ \A m \in RecordedOfRole("control-plane") : ReadyNow(m)

\* A successful reconcile has just written Provisioning and 0/n over a
\* cluster whose control plane is ready.
PhaseReset ==
  /\ outcome.handler = "reconcile" /\ outcome.kind = "success"
  /\ status.phase = "Provisioning"
  /\ status.controlPlaneReady[1] = 0
  /\ ControlPlaneAllReady

\* status holds the derived phase and the counters of the cluster as it
\* stands.
PhaseRecovered ==
  /\ status.phase \in {"Ready", "ControlPlaneReady"}
  /\ status.controlPlaneReady = TrueCounter("control-plane")
  /\ status.dataPlaneReady = TrueCounter("worker")
  /\ status.phase = PhaseOfCounters(status.controlPlaneReady, status.dataPlaneReady)

\* C33: when a successful reconcile has reset status to Provisioning with
\* counters 0/n on a cluster whose control-plane children and Machines are
\* ready, then, with the timer firing, status comes to hold the derived
\* phase (Ready or ControlPlaneReady) and the true counters again, unless
\* the control plane stops being ready or the cluster is deleted first.
C33_PhaseRecovery ==
  PhaseReset ~> (PhaseRecovered \/ ~ControlPlaneAllReady \/ deletionTimestamp)

\* A reconcile has reset the status of a cluster that a tick had reported
\* as Ready.
C33_Witness ==
  /\ PhaseReset
  /\ cpEverReady
  /\ \A m \in DOMAIN status.appliedMachines : ReadyNow(m)
  /\ status.controlPlaneReady[2] >= 1

\* ------------------------------------------- claims about two clusters
\* The Machines cluster c holds in its persisted selection or in
\* appliedMachines.
ClaimedBy(c) ==
  LET st == result.clusters[c].status
  IN  Range(st.selectedControlPlaneMachines) \cup Range(st.selectedDataPlaneMachines)
        \cup DOMAIN st.appliedMachines

\* C35: of two clusters of one namespace that both select afresh, no
\* Machine is in the persisted selection or in appliedMachines of both,
\* however their reconciles and the updates of hasConfiguration interleave.
C35_NoMachineClaimedTwice ==
  call.fn = "clusters" => ClaimedBy("a") \cap ClaimedBy("b") = {}

\* ------------------------------------- claims about the Machine pre-check
\* The machines the run selects for both roles, control plane first.
SelectedByRun ==
  LET listing == list_machines(machines, FALSE, outcome'.fault)
  IN  select_machines_for_cluster(spec.controlPlane, "controlPlane", status,
                                  listing).selected
        \o select_machines_for_cluster(spec.dataPlane, "dataPlane", status,
                                       listing).selected

\* The positions of the trace at which op is called for machine m.
CallsOf(tr, op, m) == { i \in DOMAIN tr : tr[i].op = op /\ tr[i].m = m }

\* C36: in a reconcile the Machine of every selected machine, of both
\* roles, is fetched before the first child is looked up; if one of them
\* cannot be fetched, because it does not exist or because the call fails,
\* the reconcile fails without having looked up, created or patched any
\* child and without writing status.
C36_MachinePreCheck ==
  [][ ReconcileRuns
      => LET tr == trace'
             ChildCalls == { i \in DOMAIN tr : tr[i].op \in ChildEnsureOps }
             Unfetched == { m \in Range(SelectedByRun) :
                              ~machines[m].exists
                                \/ Fails(outcome'.fault, "get_machine", m) }
         IN  /\ ChildCalls # {}
                  => \A m \in Range(SelectedByRun) :
                       \E j \in CallsOf(tr, "get_machine", m) :
                         \A i \in ChildCalls : j < i
             /\ Unfetched # {}
                  => /\ outcome'.kind \in {"unknown", "temporary"}
                     /\ ChildCalls = {}
                     /\ children' = children
                     /\ status' = status
                     /\ \A i \in DOMAIN tr : tr[i].op # "patch_status" ]_vars

\* The second of two named control-plane machines is gone: the first was
\* fetched, the second was not, and no child was looked up or created.
C36_Witness ==
  /\ outcome.handler = "reconcile" /\ outcome.kind = "unknown"
  /\ outcome.fault = NoFault
  /\ spec.controlPlane = Explicit(<< 2, 1 >>)
  /\ ~machines[1].exists
  /\ CallsOf(trace, "get_machine", 2) # {} /\ CallsOf(trace, "get_machine", 1) # {}
  /\ \A i \in DOMAIN trace : trace[i].op \notin ChildEnsureOps
  /\ \A m \in Machines : ~children[m].exists

\* ------------------------------------ claims about what is never deleted
\* C37: on a cluster without deletion timestamp no reconcile and no monitor
\* tick deletes a child or a Secret; the child of a machine that is not in
\* the selection of a reconcile, for one because it was removed from the
\* explicit list of the spec, is left exactly as it is: not deleted, not
\* patched, not created anew.
C37_NoDeletionOutsideTeardown ==
  [][ (outcome'.handler \in {"reconcile", "monitor"})
      => /\ ~deletionTimestamp
         /\ \A m \in Machines : children[m].exists => children'[m].exists
         /\ secrets \subseteq secrets'
         /\ \A i \in DOMAIN trace' :
              trace'[i].op \notin {"delete_child", "delete_secret"}
         /\ ReconcileRuns
              => \A m \in Machines \ Range(SelectedByRun) :
                   /\ children'[m] = children[m]
                   /\ \A i \in DOMAIN trace' :
                        trace'[i].m = m => trace'[i].op \notin ChildEnsureOps ]_vars

\* Machine 1 was removed from the explicit control-plane list after its
\* child was created; the next reconcile succeeded and the child is there.
C37_Witness ==
  /\ outcome.handler = "reconcile" /\ outcome.kind = "success"
  /\ spec.controlPlane = Explicit(<< 2 >>)
  /\ status.selectedControlPlaneMachines = << 2 >>
  /\ 1 \notin Range(status.selectedDataPlaneMachines)
  /\ children[1].exists /\ children[1].role = "control-plane"
  /\ children[2].exists

\* A status whose phase, counters and condition belong together: counters
\* ready/total with 0 <= ready <= total, Ready only with every node of both
\* roles ready and at least one control-plane node, ControlPlaneReady only
\* with the whole control plane ready and a worker that is not, and the one
\* condition the patch of that phase carries.
StatusConsistent(st) ==
  LET R == st.controlPlaneReady[1]
      T == st.controlPlaneReady[2]
      Rw == st.dataPlaneReady[1]
      Tw == st.dataPlaneReady[2]
      cond == st.conditions[1]
  IN  /\ st.phase \in {"Provisioning", "ControlPlaneReady", "Ready"}
      /\ 0 <= R /\ R <= T
      /\ 0 <= Rw /\ Rw <= Tw
      /\ st.phase = "Ready" => (R = T /\ T > 0 /\ Rw = Tw)
      /\ st.phase = "ControlPlaneReady" => (R = T /\ T > 0 /\ Rw < Tw)
      /\ Len(st.conditions) = 1
      /\ \/ /\ cond.type = "Provisioning"
            /\ st.phase = "Provisioning" /\ R = 0 /\ Rw = 0
         \/ /\ cond.type = "Ready"
            /\ cond.status = "True" <=> st.phase = "Ready"
            /\ cond.reason = (IF st.phase = "Ready" THEN "AllNodesReady" ELSE st.phase)

\* The status patches of a run.
StatusPatches(tr) == { i \in DOMAIN tr : tr[i].op = "patch_status" }

\* C38: every status the reconciler or the monitor writes is consistent:
\* 0 <= R <= T and 0 <= R' <= T' for controlPlaneReady = R/T and
\* dataPlaneReady = R'/T'; Ready only with R = T > 0 and R' = T';
\* ControlPlaneReady only with R = T > 0 and R' < T'; and a run sends at most
\* one status patch, which carries phase, counters and condition together,
\* so the status changes only in a run that sends it.
C38_StatusConsistent ==
  [][ (outcome'.handler \in {"reconcile", "monitor", "deletion"})
      => /\ Cardinality(StatusPatches(trace')) <= 1
         /\ status' # status => /\ Cardinality(StatusPatches(trace')) = 1
                                /\ outcome'.handler # "deletion"
         /\ status'.phase # None => StatusConsistent(status') ]_vars

\* A tick that finds both control-plane nodes ready and the worker not ready
\* writes ControlPlaneReady, 2/2 and 0/1 over the reconciler's Provisioning.
C38_Witness ==
  /\ MonitorWrote
  /\ status.phase = "ControlPlaneReady"
  /\ status.controlPlaneReady = << 2, 2 >>
  /\ status.dataPlaneReady = << 0, 1 >>
  /\ status.conditions = << [ type |-> "Ready", status |-> "False",
                              reason |-> "ControlPlaneReady" ] >>

\* ------------------------------------- claims about a machine in both roles
\* The machines a successful reconcile step persists in both selections.
InBothRoles ==
  IF ReconcileRuns /\ outcome'.kind = "success"
  THEN Range(status'.selectedControlPlaneMachines)
         \cap Range(status'.selectedDataPlaneMachines)
  ELSE {}

\* The run leaves machine m one child it looked up once per pass, and one
\* entry of appliedMachines naming it.
OneChildTwoLookups(m) ==
  /\ children'[m].exists
  /\ Cardinality(CallsOf(trace', "get_child", m)) = 2
  /\ Cardinality(CreatesOfChild(trace', m)) <= 1
  /\ m \in DOMAIN status'.appliedMachines
  /\ status'.appliedMachines[m] = m
  /\ Cardinality({ i \in DOMAIN AppliedItems(status') : AppliedItems(status')[i] = m }) = 1

\* C39 as stated: a machine a reconcile selects for both roles has exactly
\* one child after it, with role control-plane, created by that reconcile
\* where none existed; the worker pass looks it up, finds it and creates
\* nothing; appliedMachines has one entry for the machine.
C39_OneChildPerMachine ==
  [][ \A m \in InBothRoles :
        /\ OneChildTwoLookups(m)
        /\ ~children[m].exists => Cardinality(CreatesOfChild(trace', m)) = 1
        /\ children'[m].role = "control-plane" ]_vars

\* C39 for a machine that has no child when the reconcile starts, and what
\* holds whether or not it has one: the child is created at most once, by
\* the control-plane pass, and a child that exists keeps its role.
C39_OneChildWhereNoneExisted ==
  [][ \A m \in InBothRoles :
        /\ OneChildTwoLookups(m)
        /\ ~children[m].exists
             => /\ Cardinality(CreatesOfChild(trace', m)) = 1
                /\ \A i \in CreatesOfChild(trace', m) :
                     \E j \in CallsOf(trace', "get_child", m) : i < j
                /\ children'[m].role = "control-plane"
        /\ children[m].exists
             => /\ CreatesOfChild(trace', m) = {}
                /\ children'[m].role = children[m].role ]_vars

\* A first reconcile of controlPlane [2, 1] and dataPlane [1]: machine 1 has
\* one control-plane child and is persisted in both selections.
C39_Witness ==
  /\ outcome.handler = "reconcile" /\ outcome.kind = "success"
  /\ 1 \in Range(status.selectedControlPlaneMachines)
  /\ 1 \in Range(status.selectedDataPlaneMachines)
  /\ Cardinality(CreatesOfChild(trace, 1)) = 1
  /\ Cardinality(CallsOf(trace, "get_child", 1)) = 2
  /\ children[1].exists /\ children[1].role = "control-plane"
  /\ status.appliedMachines[1] = 1

====
